---- MODULE Spec2Model ----
(***************************************************************************)
(* Syslog-to-Redis stream bridge (src/syslog_stream.py).                    *)
(*                                                                         *)
(* Text is a sequence of one-character strings.  A Python value is a       *)
(* tagged record [type, val]; a dict is a function from key to value.      *)
(***************************************************************************)
EXTENDS Integers, Sequences, FiniteSets, TLC

(***************************************************************************)
(* Characters and the character classes of Python's re module.             *)
(***************************************************************************)
DigitSeq == <<"0", "1", "2", "3", "4", "5", "6", "7", "8", "9">>

UpperSeq ==
    <<"A", "B", "C", "D", "E", "F", "G", "H", "I", "J", "K", "L", "M",
      "N", "O", "P", "Q", "R", "S", "T", "U", "V", "W", "X", "Y", "Z">>

LowerSeq ==
    <<"a", "b", "c", "d", "e", "f", "g", "h", "i", "j", "k", "l", "m",
      "n", "o", "p", "q", "r", "s", "t", "u", "v", "w", "x", "y", "z">>

Range(f) == {f[i] : i \in DOMAIN f}

DigitChars == Range(DigitSeq)

WordChars == Range(UpperSeq) \cup Range(LowerSeq) \cup DigitChars \cup {"_"}

SpaceChars == {" ", "\t", "\n", "\r"}

\* str.lower() on one character.
Lower(c) ==
    IF c \in Range(UpperSeq)
    THEN LowerSeq[CHOOSE i \in DOMAIN UpperSeq : UpperSeq[i] = c]
    ELSE c

LowerAll(s) == [i \in DOMAIN s |-> Lower(s[i])]

\* Membership of a character in a class of the pattern.
InClass(c, cls) ==
    CASE cls = "lt"       -> c = "<"
      [] cls = "gt"       -> c = ">"
      [] cls = "colon"    -> c = ":"
      [] cls = "digit"    -> c \in DigitChars
      [] cls = "word"     -> c \in WordChars
      [] cls = "space"    -> c \in SpaceChars
      [] cls = "nonspace" -> c \notin SpaceChars
      [] cls = "notcolon" -> c # ":"
      [] cls = "dot"      -> c # "\n"

(***************************************************************************)
(* int() and str() on decimal text.                                        *)
(***************************************************************************)
DigitVal(c) == (CHOOSE i \in DOMAIN DigitSeq : DigitSeq[i] = c) - 1

RECURSIVE CharsToInt(_)
CharsToInt(s) ==
    IF s = <<>> THEN 0
    ELSE 10 * CharsToInt(SubSeq(s, 1, Len(s) - 1)) + DigitVal(s[Len(s)])

RECURSIVE IntToChars(_)
IntToChars(n) ==
    IF n < 0 THEN <<"-">> \o IntToChars(-n)
    ELSE IF n < 10 THEN <<DigitSeq[n + 1]>>
    ELSE IntToChars(n \div 10) \o <<DigitSeq[(n % 10) + 1]>>

\* Zero-padded decimal of width w ('%02d', '%04d').
RECURSIVE Pad(_, _)
Pad(n, w) ==
    LET s == IntToChars(n)
    IN  IF Len(s) >= w THEN s ELSE <<"0">> \o Pad(n, w - 1)

(***************************************************************************)
(* Python values.                                                          *)
(***************************************************************************)
PyStr(s) == [type |-> "str", val |-> s]

PyInt(n) == [type |-> "int", val |-> n]

PyNone == [type |-> "NoneType", val |-> <<>>]

PyList(xs) == [type |-> "list", val |-> xs]

PyDict(kvs) == [type |-> "dict", val |-> kvs]

(***************************************************************************)
(* SYSLOG_PATTERN: a sequence of greedy quantified character classes       *)
(* anchored at both ends; max = -1 is "no upper limit".                    *)
(***************************************************************************)
Item(cls, min, max) == [cls |-> cls, min |-> min, max |-> max]

\* The grammar with \s* for \s? after the colon: every leading space of the
\* body is dropped.
SyslogPatternGreedySpace ==
    << Item("lt", 1, 1), Item("digit", 1, -1), Item("gt", 1, 1),
       Item("word", 3, 3), Item("space", 1, -1), Item("digit", 1, 2),
       Item("space", 1, -1), Item("digit", 2, 2), Item("colon", 1, 1),
       Item("digit", 2, 2), Item("colon", 1, 1), Item("digit", 2, 2),
       Item("space", 1, -1), Item("nonspace", 1, -1), Item("space", 1, -1),
       Item("notcolon", 1, -1), Item("colon", 1, 1), Item("space", 0, -1),
       Item("dot", 0, -1) >>

SYSLOG_PATTERN ==
    << Item("lt", 1, 1),          \*  1  <
       Item("digit", 1, -1),      \*  2  (?P<pri>\d+)
       Item("gt", 1, 1),          \*  3  >
       Item("word", 3, 3),        \*  4  \w{3}
       Item("space", 1, -1),      \*  5  \s+
       Item("digit", 1, 2),       \*  6  \d{1,2}
       Item("space", 1, -1),      \*  7  \s+
       Item("digit", 2, 2),       \*  8  \d{2}
       Item("colon", 1, 1),       \*  9  :
       Item("digit", 2, 2),       \* 10  \d{2}
       Item("colon", 1, 1),       \* 11  :
       Item("digit", 2, 2),       \* 12  \d{2}
       Item("space", 1, -1),      \* 13  \s+
       Item("nonspace", 1, -1),   \* 14  (?P<host>\S+)
       Item("space", 1, -1),      \* 15  \s+
       Item("notcolon", 1, -1),   \* 16  (?P<tag>[^:]+)
       Item("colon", 1, 1),       \* 17  :
       Item("space", 0, 1),       \* 18  \s?
       Item("dot", 0, -1) >>      \* 19  (?P<body>.*)

\* '$' without re.MULTILINE: the end, or just before a final newline.
EndAnchor(s, pos) ==
    \/ pos = Len(s) + 1
    \/ pos = Len(s) /\ s[pos] = "\n"

\* Longest run of characters of the item's class from pos, capped by max.
RECURSIVE RunLen(_, _, _, _)
RunLen(s, item, pos, c) ==
    IF /\ pos + c <= Len(s)
       /\ item.max = -1 \/ c < item.max
       /\ InClass(s[pos + c], item.cls)
    THEN RunLen(s, item, pos, c + 1)
    ELSE c

NoMatch == [ok |-> FALSE, ends |-> <<>>]

\* Backtracking match of items k.. at pos: each item takes as many
\* characters as it can and gives them back one at a time.  ends[j] is the
\* position after item k+j-1.
RECURSIVE MatchItems(_, _, _, _, _)
RECURSIVE TryCount(_, _, _, _, _, _)
TryCount(s, items, anchored, k, pos, c) ==
    IF c < items[k].min THEN NoMatch
    ELSE LET r == MatchItems(s, items, anchored, k + 1, pos + c)
         IN  IF r.ok
             THEN [ok |-> TRUE, ends |-> <<pos + c>> \o r.ends]
             ELSE TryCount(s, items, anchored, k, pos, c - 1)

MatchItems(s, items, anchored, k, pos) ==
    IF k > Len(items)
    THEN [ok |-> (~anchored) \/ EndAnchor(s, pos), ends |-> <<>>]
    ELSE TryCount(s, items, anchored, k, pos, RunLen(s, items[k], pos, 0))

\* SYSLOG_PATTERN.match(message)
PatternMatch(message) == MatchItems(message, SYSLOG_PATTERN, TRUE, 1, 1)

\* match.group(...) for the text of items from..to.
Group(message, m, from, to) ==
    SubSeq(message, IF from = 1 THEN 1 ELSE m.ends[from - 1], m.ends[to] - 1)

(***************************************************************************)
(* datetime: a record of calendar fields.                                  *)
(***************************************************************************)
DateTime(y, mo, d, h, mi, sec, us) ==
    [year |-> y, month |-> mo, day |-> d, hour |-> h, minute |-> mi,
     second |-> sec, microsecond |-> us]

IsLeap(y) == (y % 4 = 0) /\ ((y % 100 # 0) \/ (y % 400 = 0))

DaysInMonth(y, mo) ==
    CASE mo \in {1, 3, 5, 7, 8, 10, 12} -> 31
      [] mo \in {4, 6, 9, 11} -> 30
      [] mo = 2 -> IF IsLeap(y) THEN 29 ELSE 28

\* The checks of the datetime constructor; it raises ValueError otherwise.
ValidDateTime(dt) ==
    /\ dt.year >= 1 /\ dt.year <= 9999
    /\ dt.month >= 1 /\ dt.month <= 12
    /\ dt.day >= 1 /\ dt.day <= DaysInMonth(dt.year, dt.month)
    /\ dt.hour >= 0 /\ dt.hour <= 23
    /\ dt.minute >= 0 /\ dt.minute <= 59
    /\ dt.second >= 0 /\ dt.second <= 59

DtKey(dt) ==
    <<dt.year, dt.month, dt.day, dt.hour, dt.minute, dt.second, dt.microsecond>>

RECURSIVE LexGreater(_, _, _)
LexGreater(a, b, i) ==
    IF i > Len(a) THEN FALSE
    ELSE IF a[i] # b[i] THEN a[i] > b[i]
    ELSE LexGreater(a, b, i + 1)

\* datetime.__gt__
DtGreater(a, b) == LexGreater(DtKey(a), DtKey(b), 1)

\* datetime.isoformat(): the fraction is printed only when it is not zero.
isoformat(dt) ==
    Pad(dt.year, 4) \o <<"-">> \o Pad(dt.month, 2) \o <<"-">> \o Pad(dt.day, 2)
    \o <<"T">> \o Pad(dt.hour, 2) \o <<":">> \o Pad(dt.minute, 2)
    \o <<":">> \o Pad(dt.second, 2)
    \o (IF dt.microsecond = 0 THEN <<>> ELSE <<".">> \o Pad(dt.microsecond, 6))

MonthAbbr ==
    << <<"j", "a", "n">>, <<"f", "e", "b">>, <<"m", "a", "r">>,
       <<"a", "p", "r">>, <<"m", "a", "y">>, <<"j", "u", "n">>,
       <<"j", "u", "l">>, <<"a", "u", "g">>, <<"s", "e", "p">>,
       <<"o", "c", "t">>, <<"n", "o", "v">>, <<"d", "e", "c">> >>

\* The directive regexes of "%Y %b %d %H:%M:%S"; the values they accept
\* are checked in strptime below.
STRPTIME_PATTERN ==
    << Item("digit", 4, 4),       \*  1  %Y
       Item("space", 1, -1),      \*  2
       Item("word", 3, 3),        \*  3  %b
       Item("space", 1, -1),      \*  4
       Item("digit", 1, 2),       \*  5  %d
       Item("space", 1, -1),      \*  6
       Item("digit", 1, 2),       \*  7  %H
       Item("colon", 1, 1),       \*  8
       Item("digit", 1, 2),       \*  9  %M
       Item("colon", 1, 1),       \* 10
       Item("digit", 1, 2) >>     \* 11  %S

ValueError == [ok |-> FALSE, dt |-> DateTime(0, 0, 0, 0, 0, 0, 0)]

\* datetime.strptime(text, "%Y %b %d %H:%M:%S"): the month is one of the
\* twelve abbreviations in any case, the day 1..31, the hour 0..23, the
\* minute 0..59, the second 0..61, nothing may follow, and the fields must
\* make a datetime.
strptime(text) ==
    LET m == MatchItems(text, STRPTIME_PATTERN, FALSE, 1, 1)
    IN  IF ~m.ok \/ m.ends[11] # Len(text) + 1 THEN ValueError
        ELSE LET mon == LowerAll(Group(text, m, 3, 3))
                 dt  == DateTime(CharsToInt(Group(text, m, 1, 1)),
                                 IF \E i \in DOMAIN MonthAbbr : MonthAbbr[i] = mon
                                 THEN CHOOSE i \in DOMAIN MonthAbbr : MonthAbbr[i] = mon
                                 ELSE 0,
                                 CharsToInt(Group(text, m, 5, 5)),
                                 CharsToInt(Group(text, m, 7, 7)),
                                 CharsToInt(Group(text, m, 9, 9)),
                                 CharsToInt(Group(text, m, 11, 11)),
                                 0)
             IN  IF /\ dt.month # 0
                    /\ dt.day >= 1 /\ dt.day <= 31
                    /\ dt.hour <= 23 /\ dt.minute <= 59 /\ dt.second <= 61
                    /\ ValidDateTime(dt)
                 THEN [ok |-> TRUE, dt |-> dt]
                 ELSE ValueError

\* A replace that leaves the year as it is.
ReplaceYearKeeps(dt, y) == [ok |-> TRUE, dt |-> dt]

\* dt.replace(year=y): raises ValueError when the date does not exist in y.
ReplaceYear(dt, y) ==
    LET r == [dt EXCEPT !.year = y]
    IN  IF ValidDateTime(r) THEN [ok |-> TRUE, dt |-> r] ELSE ValueError

\* A resolver that also takes a candidate equal to the current time for a
\* future one.
InFutureOrNow(dt, current_utc) == ~DtGreater(current_utc, dt)

\* The comparison of line 34.
InFuture(dt, current_utc) == DtGreater(dt, current_utc)

\* Lines 29-38 up to the formatting: the resolved datetime, or ValueError.
ResolveTimestamp(timestamp, current_utc) ==
    LET p == strptime(IntToChars(current_utc.year) \o <<" ">> \o timestamp)
    IN  IF ~p.ok THEN ValueError
        ELSE IF InFuture(p.dt, current_utc)
             THEN ReplaceYear(p.dt, p.dt.year - 1)
             ELSE p

\* _parse_timestamp: ISO-8601 text with "Z", or "" on ValueError.
parse_timestamp(timestamp, current_utc) ==
    LET r == ResolveTimestamp(timestamp, current_utc)
    IN  IF r.ok THEN isoformat(r.dt) \o <<"Z">> ELSE <<>>

(***************************************************************************)
(* _decode_pri and parse_syslog_message.                                   *)
(***************************************************************************)
\* A decoder that keeps the facility within 0..23.
DecodePriClamped(pri) == [facility |-> (pri \div 8) % 24, severity |-> pri % 8]

decode_pri(pri) == [facility |-> pri \div 8, severity |-> pri % 8]
\* A parser that keeps the empty text of an unresolved timestamp.
OrEmpty(text) == PyStr(text)

\* `timestamp or None`
OrNone(text) == IF text = <<>> THEN PyNone ELSE PyStr(text)

\* A parser that leaves out an empty body as it does an unresolved timestamp.
StructuredFieldsLoose(message, m, current_utc) ==
    LET pri == CharsToInt(Group(message, m, 2, 2))
    IN  [pri       |-> PyInt(pri),
         facility  |-> PyInt(pri \div 8),
         severity  |-> PyInt(pri % 8),
         timestamp |-> OrNone(parse_timestamp(Group(message, m, 4, 12), current_utc)),
         host      |-> PyStr(Group(message, m, 14, 14)),
         tag       |-> PyStr(Group(message, m, 16, 16)),
         message   |-> OrNone(Group(message, m, 19, 19))]

\* The dict of lines 57-67.
StructuredFields(message, m, current_utc) ==
    LET pri == CharsToInt(Group(message, m, 2, 2))
        fs  == decode_pri(pri)
    IN  [pri       |-> PyInt(pri),
         facility  |-> PyInt(fs.facility),
         severity  |-> PyInt(fs.severity),
         timestamp |-> OrNone(parse_timestamp(Group(message, m, 4, 12), current_utc)),
         host      |-> PyStr(Group(message, m, 14, 14)),
         tag       |-> PyStr(Group(message, m, 16, 16)),
         message   |-> PyStr(Group(message, m, 19, 19))]

\* A parser that, on a miss, still reports the text as the message.
ParseBestEffort(message, current_utc) ==
    LET parsed == [raw |-> PyStr(message)]
        m      == PatternMatch(message)
    IN  IF ~m.ok THEN [message |-> PyStr(message)] @@ parsed
        ELSE StructuredFields(message, m, current_utc) @@ parsed

\* A parser that stamps the event with the time of receipt itself.
ParseStampsReceipt(message, current_utc) ==
    LET parsed == [raw |-> PyStr(message),
                   received_at |-> PyStr(isoformat(current_utc) \o <<"Z">>)]
        m      == PatternMatch(message)
    IN  IF ~m.ok THEN parsed
        ELSE StructuredFields(message, m, current_utc) @@ parsed

\* parse_syslog_message(message), reading the clock as current_utc.
parse_syslog_message(message, current_utc) ==
    LET parsed == [raw |-> PyStr(message)]
        m      == PatternMatch(message)
    IN  IF ~m.ok THEN parsed
        ELSE StructuredFields(message, m, current_utc) @@ parsed

(***************************************************************************)
(* RedisStreamWriter.write: the payload handed to XADD.                    *)
(***************************************************************************)
\* json.dumps text of a string: quotes, with '"', '\' and newline escaped.
RECURSIVE JsonEscape(_)
JsonEscape(s) ==
    IF s = <<>> THEN <<>>
    ELSE (CASE s[1] = "\"" -> <<"\\", "\"">>
            [] s[1] = "\\" -> <<"\\", "\\">>
            [] s[1] = "\n" -> <<"\\", "n">>
            [] OTHER -> <<s[1]>>) \o JsonEscape(Tail(s))

\* json.dumps of a scalar element.
JsonScalar(v) ==
    CASE v.type = "int" -> IntToChars(v.val)
      [] v.type = "str" -> <<"\"">> \o JsonEscape(v.val) \o <<"\"">>
      [] v.type = "NoneType" -> <<"n", "u", "l", "l">>

RECURSIVE JsonJoin(_)
JsonJoin(parts) ==
    IF parts = <<>> THEN <<>>
    ELSE IF Len(parts) = 1 THEN parts[1]
    ELSE parts[1] \o <<",", " ">> \o JsonJoin(Tail(parts))

\* json.dumps(value) for a list of scalars or a dict of key/scalar pairs.
json_dumps(v) ==
    IF v.type = "list"
    THEN <<"[">> \o JsonJoin([i \in DOMAIN v.val |-> JsonScalar(v.val[i])]) \o <<"]">>
    ELSE <<"{">>
         \o JsonJoin([i \in DOMAIN v.val |->
                JsonScalar(PyStr(v.val[i][1])) \o <<":", " ">> \o JsonScalar(v.val[i][2])])
         \o <<"}">>

\* str(value) for the scalar types.
str(v) ==
    CASE v.type = "str" -> v.val
      [] v.type = "int" -> IntToChars(v.val)
      [] v.type = "NoneType" -> <<"N", "o", "n", "e">>

\* A loop that skips nothing.
SkippedNever(value) == FALSE

\* Line 81: the values the loop skips.
Skipped(value) == value.type = "NoneType"

\* Lines 83-86: the text stored for a value.
Serialize(value) ==
    IF value.type \in {"dict", "list"}
    THEN PyStr(json_dumps(value))
    ELSE PyStr(str(value))

\* Lines 79-86: the payload dict.
Payload(event) ==
    [key \in {k \in DOMAIN event : ~Skipped(event[k])} |-> Serialize(event[key])]

(***************************************************************************)
(* The handler's view of a datagram (lines 94-95).                         *)
(***************************************************************************)
\* A byte that is not valid UTF-8, and the character it is replaced by.
InvalidByte == "0xFF"

ReplacementChar == "U+FFFD"

\* bytes.decode("utf-8", errors="replace")
Decode(data) ==
    [i \in DOMAIN data |-> IF data[i] = InvalidByte THEN ReplacementChar ELSE data[i]]

\* str.strip()
RECURSIVE LStrip(_)
LStrip(s) ==
    IF s # <<>> /\ s[1] \in SpaceChars THEN LStrip(Tail(s)) ELSE s

RECURSIVE RStrip(_)
RStrip(s) ==
    IF s # <<>> /\ s[Len(s)] \in SpaceChars
    THEN RStrip(SubSeq(s, 1, Len(s) - 1))
    ELSE s

Strip(s) == RStrip(LStrip(s))

(***************************************************************************)
(* Bounds and inputs.                                                      *)
(***************************************************************************)
\* Datagrams received in one run of the server.
MaxDatagrams == 2

\* Seconds the clock advances in one run.
MaxTicks == 1

\* Largest PRI value of the lines that differ in PRI alone.
MaxPri == 200

\* The datagrams senders emit: a well-formed line with its newline, and an
\* unframed line with an undecodable byte.
Datagrams ==
    { <<"<", "3", "4", ">", "O", "c", "t", " ", "1", "1", " ", "2", "2", ":", "1", "4", ":", "1", "5", " ", "m", "y", "m", "a", "c", "h", "i", "n", "e", " ", "s", "u", ":", " ", "'", "s", "u", " ", "r", "o", "o", "t", "'", " ", "f", "a", "i", "l", "e", "d", "\n">>,
      <<"r", "a", "n", "d", "o", "m", InvalidByte, "l", "i", "n", "e">> }

ClientAddress == "192.0.2.1:514"

\* The '<PRI>' head of a line: in range, past 191, zero-padded, and malformed.
PriParts ==
    { <<"<", "3", "4", ">">>,
      <<"<", "0", ">">>,
      <<"<", "1", "9", "1", ">">>,
      <<"<", "1", "9", "2", ">">>,
      <<"<", "1", "0", "0", "0", ">">>,
      <<"<", "0", "0", "7", ">">>,
      <<"3", "4", ">">>,
      <<"<", ">">>,
      <<"<", "3", "a", ">">> }

\* The timestamp token: valid dates, dates that do not exist, and malformed tokens.
TimestampParts ==
    { <<"O", "c", "t", " ", "1", "1", " ", "2", "2", ":", "1", "4", ":", "1", "5">>,
      <<"O", "c", "t", " ", " ", "1", " ", "2", "2", ":", "1", "4", ":", "1", "5">>,
      <<"D", "e", "c", " ", "3", "1", " ", "2", "3", ":", "5", "9", ":", "5", "9">>,
      <<"J", "a", "n", " ", " ", "1", " ", "0", "0", ":", "0", "0", ":", "0", "0">>,
      <<"F", "e", "b", " ", "2", "9", " ", "1", "2", ":", "0", "0", ":", "0", "0">>,
      <<"o", "c", "t", " ", "1", "1", " ", "2", "2", ":", "1", "4", ":", "1", "5">>,
      <<"O", "c", "t", " ", "9", "9", " ", "2", "2", ":", "1", "4", ":", "1", "5">>,
      <<"O", "c", "t", " ", "1", "1", " ", "2", "5", ":", "1", "4", ":", "1", "5">>,
      <<"O", "c", "t", " ", "1", "1", " ", "2", "2", ":", "1", "4", ":", "6", "0">>,
      <<"X", "y", "z", " ", "1", "1", " ", "2", "2", ":", "1", "4", ":", "1", "5">>,
      <<"F", "e", "b", " ", "3", "0", " ", "0", "1", ":", "0", "2", ":", "0", "3">>,
      <<"O", "c", "t", " ", "1", "1", " ", "2", "2", ":", "1", "4">>,
      <<"O", "c", "t", "o", " ", "1", "1", " ", "2", "2", ":", "1", "4", ":", "1", "5">> }

\* The rest of a line: separator, host, tag, colon and body, well- and ill-formed.
TailParts ==
    { <<" ", "m", "y", "m", "a", "c", "h", "i", "n", "e", " ", "s", "u", ":", " ", "'", "s", "u", " ", "r", "o", "o", "t", "'", " ", "f", "a", "i", "l", "e", "d">>,
      <<" ", "h", " ", "t", ":", "x">>,
      <<" ", "h", " ", "t", ":">>,
      <<" ", "h", " ", "t", ":", " ", " ", "x">>,
      <<" ", "h", " ", " ", ":", " ", "x">>,
      <<" ", "h", " ", "t", ":", " ", "a", "\n", "b">>,
      <<" ", "h", " ", "t", ":", " ", "a", ":", "b">>,
      <<" ", "a", ":", "b", " ", "t", ":", " ", "x">>,
      <<" ", "h", " ", "s", "u", "[", "1", "]", ":", " ", "x">>,
      <<" ", "h", " ", "t", " ", "x">>,
      <<"h", " ", "t", ":", " ", "x">>,
      <<" ", "h", ":", " ", "x">>,
      <<" ", "h", " ", "t", ":", " ", "x", "\n">> }

\* Lines taken as they are.
WholeLines ==
    { <<"r", "a", "n", "d", "o", "m", " ", "l", "i", "n", "e", " ", "w", "i", "t", "h", "o", "u", "t", " ", "s", "y", "s", "l", "o", "g", " ", "f", "r", "a", "m", "i", "n", "g">>,
      <<>>,
      <<" ", "<", "3", "4", ">", "O", "c", "t", " ", "1", "1", " ", "2", "2", ":", "1", "4", ":", "1", "5", " ", "h", " ", "t", ":", " ", "x">>,
      <<"<", "3", "4", ">", "O", "c", "t", " ", "1", "1", " ", "2", "2", ":", "1", "4", ":", "1", "5", " ", "h", " ", "t", ":", " ", "x">>,
      <<"x", "<", "3", "4", ">", "O", "c", "t", " ", "1", "1", " ", "2", "2", ":", "1", "4", ":", "1", "5", " ", "h", " ", "t", ":", " ", "x">> }

ScenarioPri == <<"<", "3", "4", ">">>

ScenarioTimestamp ==
    <<"O", "c", "t", " ", "1", "1", " ", "2", "2", ":", "1", "4", ":", "1", "5">>

ScenarioTail == <<" ", "h", " ", "t", ":", " ", "x">>

\* The lines the parser is applied to: every head with every tail, every
\* timestamp with every tail, and every PRI value up to MaxPri.
Lines ==
    {p \o ScenarioTimestamp \o r : p \in PriParts, r \in TailParts}
    \cup {<<"<">> \o IntToChars(n) \o <<">">> \o ScenarioTimestamp \o ScenarioTail :
             n \in 0..MaxPri}
    \cup {ScenarioPri \o t \o r : t \in TimestampParts, r \in TailParts}
    \cup WholeLines

\* Events handed to write() that hold values of every kind it distinguishes.
WriterEvents ==
    { [raw |-> PyStr(<<"x">>), extra |-> PyList(<<PyInt(1), PyStr(<<"a">>)>>)],
      [raw |-> PyStr(<<>>), extra |-> PyDict(<< <<<<"k">>, PyInt(10)>> >>), gone |-> PyNone],
      [raw |-> PyStr(<<"x">>), pri |-> PyInt(0), timestamp |-> PyNone] }

\* The clock when the server starts.
StartTimes == {DateTime(2023, 12, 31, 23, 59, 59, 500000)}

\* Clock readings the parser is applied at.
Nows ==
    { DateTime(2024, 1, 1, 0, 0, 1, 0),
      DateTime(2024, 10, 11, 22, 14, 15, 0),
      DateTime(2023, 12, 31, 23, 59, 59, 500000),
      DateTime(2025, 6, 15, 12, 0, 0, 250000) }

\* The clock one second later.
AddSecond(dt) ==
    IF dt.second < 59 THEN [dt EXCEPT !.second = dt.second + 1]
    ELSE IF dt.minute < 59 THEN [dt EXCEPT !.second = 0, !.minute = dt.minute + 1]
    ELSE IF dt.hour < 23 THEN [dt EXCEPT !.second = 0, !.minute = 0, !.hour = dt.hour + 1]
    ELSE IF dt.day < DaysInMonth(dt.year, dt.month)
         THEN [dt EXCEPT !.second = 0, !.minute = 0, !.hour = 0, !.day = dt.day + 1]
    ELSE IF dt.month < 12
         THEN [dt EXCEPT !.second = 0, !.minute = 0, !.hour = 0, !.day = 1,
                         !.month = dt.month + 1]
    ELSE [dt EXCEPT !.second = 0, !.minute = 0, !.hour = 0, !.day = 1, !.month = 1,
                    !.year = dt.year + 1]

(***************************************************************************)
(* State.                                                                  *)
(*   mainPc    where main() is: "init", "serving" (inside serve_forever),  *)
(*             "interrupted" (KeyboardInterrupt caught), "joining"         *)
(*             (server_close waits for the threads), "exited", "crashed"   *)
(*             (the bind failed)                                           *)
(*   socket    the UDP socket: "none", "bound", "closed"                   *)
(*   clock     datetime.utcnow()                                           *)
(*   ticks     seconds the clock has advanced                              *)
(*   received  the datagrams get_request has returned, in order            *)
(*   handlers  the handler threads: pc and the locals of handle()          *)
(*   stream    the Redis stream: the records appended, in order            *)
(*   stderr    what handle_error has printed                               *)
(*   calls     per datagram: calls of parse_syslog_message, of write and   *)
(*             of xadd, xadd calls that appended and that raised, and the  *)
(*             errors already reported when the datagram was received,     *)
(*             and whether its handler was running at the interrupt        *)
(***************************************************************************)
VARIABLES mainPc, socket, clock, ticks, received, handlers, stream, stderr, calls

(***************************************************************************)
(* The state of a run of parse.py or parse_dspy.py:                        *)
(*   proc          the process: which script, where main() stands, its     *)
(*                 locals and its exit status                              *)
(*   decision_txt  the file decision.txt of the working directory          *)
(***************************************************************************)
VARIABLES proc, decision_txt

parseVars == <<proc, decision_txt>>

listenerVars == <<mainPc, socket, clock, ticks, received, handlers, stream, stderr, calls>>

\* The two parsers; each runs in a working directory of its own.
Scripts == {"parse.py", "parse_dspy.py"}

vars == <<mainPc, socket, clock, ticks, received, handlers, stream, stderr, calls,
          proc, decision_txt>>

\* No parser process; no file.
NoProc ==
    [pc |-> "none", stdin |-> <<>>, input_data |-> <<>>, json_str |-> <<>>,
     json_data |-> PyNone, decision |-> PyNone, exit |-> -1,
     interrupted |-> FALSE]

NoFile == [exists |-> FALSE, content |-> <<>>]

Ids == 1..MaxDatagrams

IdleHandler ==
    [pc |-> "idle", data |-> <<>>, client |-> "", message |-> <<>>,
     event |-> <<>>, payload |-> <<>>, conn |-> 0]

NoCalls ==
    [parse |-> 0, write |-> 0, xadd |-> 0, appended |-> 0, failed |-> 0,
     priorErrors |-> 0, inFlightAtStop |-> FALSE]

\* The listener's state: datagrams are taken off the socket only inside
\* serve_forever.
State == IF mainPc = "serving" THEN "Listening" ELSE "Stopped"

Init ==
    /\ mainPc = "init"
    /\ socket = "none"
    /\ clock \in StartTimes
    /\ ticks = 0
    /\ received = <<>>
    /\ handlers = [h \in Ids |-> IdleHandler]
    /\ stream = <<>>
    /\ stderr = <<>>
    /\ calls = [h \in Ids |-> NoCalls]
    /\ proc = [s \in Scripts |-> NoProc]
    /\ decision_txt = [s \in Scripts |-> NoFile]

(***************************************************************************)
(* main() and the server.                                                  *)
(***************************************************************************)
\* Lines 119-124: the writer and the server are built, the socket is bound
\* and serve_forever is entered.
Start ==
    /\ mainPc = "init"
    /\ mainPc' = "serving"
    /\ socket' = "bound"
    /\ UNCHANGED <<parseVars, clock, ticks, received, handlers, stream, stderr, calls>>

\* Line 120: the bind fails and main() ends with the OSError.
StartFails ==
    /\ mainPc = "init"
    /\ mainPc' = "crashed"
    /\ UNCHANGED <<parseVars, socket, clock, ticks, received, handlers, stream, stderr, calls>>

\* A server that stops taking datagrams once a handler has failed.
AcceptingUntilError == mainPc = "serving" /\ stderr = <<>>

\* A server that takes datagrams for as long as the socket is bound.
AcceptingWhileBound == socket = "bound"

\* serve_forever takes datagrams while it runs.
Accepting == mainPc = "serving"

\* handle() runs to its end once started: the thread is not a daemon and
\* nothing cancels it.
FirstStep == "decode"

\* serve_forever: get_request returns a datagram and process_request starts
\* a thread for it.
ReceiveDatagram(d) ==
    /\ Accepting
    /\ Len(received) < MaxDatagrams
    /\ LET h == Len(received) + 1
       IN  handlers' = [handlers EXCEPT ![h] =
               [IdleHandler EXCEPT !.pc = FirstStep, !.data = d, !.client = ClientAddress]]
    /\ received' = Append(received, d)
    /\ calls' = [calls EXCEPT ![Len(received) + 1].priorErrors = Len(stderr)]
    /\ UNCHANGED <<parseVars, mainPc, socket, clock, ticks, stream, stderr>>

\* Lines 125-126: the interrupt ends serve_forever.
Interrupt ==
    /\ mainPc = "serving"
    /\ mainPc' = "interrupted"
    /\ calls' = [h \in Ids |->
                    [calls[h] EXCEPT !.inFlightAtStop = handlers[h].pc \notin {"idle", "done"}]]
    /\ UNCHANGED <<parseVars, socket, clock, ticks, received, handlers, stream, stderr>>

\* Line 128: server_close first closes the socket ...
CloseSocket ==
    /\ mainPc = "interrupted"
    /\ mainPc' = "joining"
    /\ socket' = "closed"
    /\ UNCHANGED <<parseVars, clock, ticks, received, handlers, stream, stderr, calls>>

\* A server whose handler threads are daemons: server_close does not wait
\* for a thread that is inside xadd.
RunningDaemon(h) == handlers[h].pc \notin {"idle", "done", "xadd", "stalled"}

\* The thread of handler h is alive: ThreadingMixIn keeps it in _threads
\* (daemon_threads is False, block_on_close is True).
Running(h) == handlers[h].pc \notin {"idle", "done"}

\* ... and then joins every handler thread; main() returns.
JoinThreads ==
    /\ mainPc = "joining"
    /\ \A h \in Ids : ~Running(h)
    /\ mainPc' = "exited"
    /\ UNCHANGED <<parseVars, socket, clock, ticks, received, handlers, stream, stderr, calls>>

\* Time passes.
Tick ==
    /\ ticks < MaxTicks
    /\ ticks' = ticks + 1
    /\ clock' = AddSecond(clock)
    /\ UNCHANGED <<parseVars, mainPc, socket, received, handlers, stream, stderr, calls>>

(***************************************************************************)
(* RedisSyslogUDPHandler.handle, one step per line.                        *)
(***************************************************************************)
\* Lines 94-95
HandleDecode(h) ==
    /\ handlers[h].pc = "decode"
    /\ handlers' = [handlers EXCEPT ![h].pc = "parse",
                                    ![h].message = Strip(Decode(handlers[h].data))]
    /\ UNCHANGED <<parseVars, mainPc, socket, clock, ticks, received, stream, stderr, calls>>

\* Line 96
HandleParse(h) ==
    /\ handlers[h].pc = "parse"
    /\ handlers' = [handlers EXCEPT ![h].pc = "stamp",
                                    ![h].event = parse_syslog_message(handlers[h].message, clock)]
    /\ calls' = [calls EXCEPT ![h].parse = @ + 1]
    /\ UNCHANGED <<parseVars, mainPc, socket, clock, ticks, received, stream, stderr>>

\* Line 97
HandleStamp(h) ==
    /\ handlers[h].pc = "stamp"
    /\ handlers' = [handlers EXCEPT ![h].pc = "write",
                                    ![h].event = [received_at |-> PyStr(isoformat(clock) \o <<"Z">>)]
                                                 @@ handlers[h].event]
    /\ UNCHANGED <<parseVars, mainPc, socket, clock, ticks, received, stream, stderr, calls>>

\* The connections of the writer's client that commands of other handlers
\* are using (0: none).
InUse(h) == {handlers[o].conn : o \in Ids \ {h}} \ {0}

\* A client that sends every command over the same connection.
GetConnectionShared(h) == 1

\* Line 75: redis.from_url builds a client over a connection pool.  Each
\* command takes from the pool, under the pool's lock, a connection that no
\* other command is using (a new one when none is free) and gives it back
\* when the command ends.
GetConnection(h) ==
    CHOOSE c \in Ids : c \notin InUse(h) /\ \A b \in Ids \ InUse(h) : c <= b

\* Lines 98, 79-87: write() builds the payload and calls xadd.
HandleWrite(h) ==
    /\ handlers[h].pc = "write"
    /\ handlers' = [handlers EXCEPT ![h].pc = "xadd",
                                    ![h].payload = Payload(handlers[h].event),
                                    ![h].conn = GetConnection(h)]
    /\ calls' = [calls EXCEPT ![h].write = @ + 1, ![h].xadd = @ + 1]
    /\ UNCHANGED <<parseVars, mainPc, socket, clock, ticks, received, stream, stderr>>

\* A write that reports success without the record being appended.
XaddDrops(s, fields) == s

\* A write that leaves out a record the stream already holds.
XaddDedups(s, fields) ==
    IF \E i \in DOMAIN s : s[i].fields = fields
    THEN s
    ELSE Append(s, [id |-> Len(s) + 1, fields |-> fields])

\* A stream that puts the newest record first.
XaddPrepends(s, fields) == <<[id |-> Len(s) + 1, fields |-> fields]>> \o s

\* XADD: the record goes to the end of the stream under a new identifier.
xadd(s, fields) == Append(s, [id |-> Len(s) + 1, fields |-> fields])

\* A handler that ends with its datagram, event and payload still held (by
\* a cache of events, say).
XaddReturnsKeeps(h) ==
    /\ handlers[h].pc = "xadd"
    /\ stream' = xadd(stream, handlers[h].payload)
    /\ handlers' = [handlers EXCEPT ![h].pc = "done"]
    /\ calls' = [calls EXCEPT ![h].appended = @ + 1]
    /\ UNCHANGED <<parseVars, mainPc, socket, clock, ticks, received, stderr>>

\* Line 87: xadd returns the identifier, write returns it, handle returns
\* and the thread ends.
XaddReturns(h) ==
    /\ handlers[h].pc = "xadd"
    /\ stream' = xadd(stream, handlers[h].payload)
    /\ handlers' = [handlers EXCEPT ![h] = [IdleHandler EXCEPT !.pc = "done"]]
    /\ calls' = [calls EXCEPT ![h].appended = @ + 1]
    /\ UNCHANGED <<parseVars, mainPc, socket, clock, ticks, received, stderr>>

\* A writer that calls xadd again when it raises.
AfterXaddErrorRetry == "xadd"

\* Where a handler goes when xadd raises: neither write (line 87) nor
\* handle (line 98) catches, so the thread ends.
AfterXaddError == "done"

\* What reaches stderr for a handler whose xadd raised: handle_error prints
\* the client address and the traceback of the exception.
ErrorReport(h) ==
    [client |-> handlers[h].client, traceback |-> "redis.exceptions.ConnectionError"]

\* Line 87: xadd raises (connection lost, destination unavailable).  The
\* exception leaves write and handle; process_request_thread reports it.
XaddRaises(h) ==
    /\ handlers[h].pc = "xadd"
    /\ stderr' = Append(stderr, ErrorReport(h))
    /\ handlers' = [handlers EXCEPT ![h] =
           IF AfterXaddError = "done"
           THEN [IdleHandler EXCEPT !.pc = "done"]
           ELSE [handlers[h] EXCEPT !.pc = AfterXaddError]]
    /\ calls' = [calls EXCEPT ![h].failed = @ + 1,
                              ![h].xadd = IF AfterXaddError = "xadd" THEN @ + 1 ELSE @]
    /\ UNCHANGED <<parseVars, mainPc, socket, clock, ticks, received, stream>>

\* Line 75 sets no socket timeout: a destination that stops answering
\* leaves the call blocked for good.
XaddStalls(h) ==
    /\ handlers[h].pc = "xadd"
    /\ handlers' = [handlers EXCEPT ![h].pc = "stalled"]
    /\ UNCHANGED <<parseVars, mainPc, socket, clock, ticks, received, stream, stderr, calls>>

Handle(h) ==
    \/ HandleDecode(h)
    \/ HandleParse(h)
    \/ HandleStamp(h)
    \/ HandleWrite(h)
    \/ XaddReturns(h)
    \/ XaddRaises(h)
    \/ XaddStalls(h)

Next ==
    \/ Start
    \/ StartFails
    \/ \E d \in Datagrams : ReceiveDatagram(d)
    \/ Interrupt
    \/ CloseSocket
    \/ JoinThreads
    \/ Tick
    \/ \E h \in Ids : Handle(h)

Spec == Init /\ [][Next]_vars

(***************************************************************************)
(* One handler on one input: handle() on a datagram, parse_syslog_message  *)
(* on a line as it is, or write() on an event.                             *)
(***************************************************************************)
UnitStarts ==
    {[IdleHandler EXCEPT !.pc = "decode", !.data = d, !.client = ClientAddress] :
        d \in Datagrams}
    \cup {[IdleHandler EXCEPT !.pc = "parse", !.data = l, !.message = l,
                              !.client = ClientAddress] : l \in Lines}
    \cup {[IdleHandler EXCEPT !.pc = "write", !.event = e, !.client = ClientAddress] :
             e \in WriterEvents}

InitUnit ==
    /\ mainPc = "serving"
    /\ socket = "bound"
    /\ clock \in Nows
    /\ ticks = 0
    /\ \E u \in UnitStarts :
          /\ handlers = [h \in Ids |-> IF h = 1 THEN u ELSE IdleHandler]
          /\ received = <<u.data>>
    /\ stream = <<>>
    /\ stderr = <<>>
    /\ calls = [h \in Ids |-> NoCalls]
    /\ proc = [s \in Scripts |-> NoProc]
    /\ decision_txt = [s \in Scripts |-> NoFile]

NextUnit ==
    \/ Tick
    \/ Handle(1)

SpecUnit == InitUnit /\ [][NextUnit]_vars

(***************************************************************************)
(* parse.py and parse_dspy.py: JSON text.  json.loads for objects with     *)
(* string keys, strings without escapes, integers and null.                *)
(***************************************************************************)
JsonFail == [ok |-> FALSE, val |-> PyNone, next |-> 0]

JsonOk(v, next) == [ok |-> TRUE, val |-> v, next |-> next]

RECURSIVE SkipWhitespace(_, _)
SkipWhitespace(s, pos) ==
    IF pos <= Len(s) /\ s[pos] \in {" ", "\n", "\t", "\r"}
    THEN SkipWhitespace(s, pos + 1)
    ELSE pos

\* The position of the next double quote from pos on; Len(s) + 1: none.
RECURSIVE NextQuote(_, _)
NextQuote(s, pos) ==
    IF pos <= Len(s) /\ s[pos] # "\"" THEN NextQuote(s, pos + 1) ELSE pos

\* Text t stands in s at pos.
StartsWith(s, pos, t) ==
    /\ pos + Len(t) - 1 <= Len(s)
    /\ \A i \in DOMAIN t : s[pos + i - 1] = t[i]

\* A string: the characters up to the closing quote; a control character
\* or a backslash in it is an error.
ParseString(s, pos) ==
    LET q == NextQuote(s, pos + 1)
    IN  IF pos > Len(s) \/ s[pos] # "\"" \/ q > Len(s) THEN JsonFail
        ELSE IF \E i \in (pos + 1)..(q - 1) : s[i] \in {"\n", "\t", "\r", "\\"}
        THEN JsonFail
        ELSE JsonOk(PyStr(SubSeq(s, pos + 1, q - 1)), q + 1)

\* An integer: digits.
ParseNumber(s, pos) ==
    LET n == RunLen(s, Item("digit", 1, -1), pos, 0)
    IN  IF n = 0 \/ (n > 1 /\ s[pos] = "0") THEN JsonFail
        ELSE JsonOk(PyInt(CharsToInt(SubSeq(s, pos, pos + n - 1))), pos + n)

\* The key is among the pairs.
HasKey(kvs, k) == \E i \in DOMAIN kvs : kvs[i][1] = k

\* dict[k] = v: the value of an old key is replaced where it stands.
SetKey(kvs, k, v) ==
    IF HasKey(kvs, k)
    THEN [i \in DOMAIN kvs |-> IF kvs[i][1] = k THEN <<k, v>> ELSE kvs[i]]
    ELSE Append(kvs, <<k, v>>)

\* dict[k]
GetKey(kvs, k) == kvs[CHOOSE i \in DOMAIN kvs : kvs[i][1] = k][2]

RECURSIVE ParseValue(_, _)
RECURSIVE ParseMembers(_, _, _)
\* The members of an object from pos on (after "{" or ","), added to kvs.
ParseMembers(s, pos, kvs) ==
    LET k  == ParseString(s, SkipWhitespace(s, pos))
        c  == SkipWhitespace(s, k.next)
        v  == ParseValue(s, SkipWhitespace(s, c + 1))
        e  == SkipWhitespace(s, v.next)
    IN  IF ~k.ok \/ c > Len(s) \/ s[c] # ":" THEN JsonFail
        ELSE IF ~v.ok \/ e > Len(s) THEN JsonFail
        ELSE IF s[e] = "}" THEN JsonOk(PyDict(SetKey(kvs, k.val.val, v.val)), e + 1)
        ELSE IF s[e] = "," THEN ParseMembers(s, e + 1, SetKey(kvs, k.val.val, v.val))
        ELSE JsonFail

ParseValue(s, pos) ==
    IF pos > Len(s) THEN JsonFail
    ELSE IF s[pos] = "{"
         THEN LET p == SkipWhitespace(s, pos + 1)
              IN  IF p <= Len(s) /\ s[p] = "}" THEN JsonOk(PyDict(<<>>), p + 1)
                  ELSE ParseMembers(s, pos + 1, <<>>)
    ELSE IF s[pos] = "\"" THEN ParseString(s, pos)
    ELSE IF StartsWith(s, pos, <<"n", "u", "l", "l">>) THEN JsonOk(PyNone, pos + 4)
    ELSE ParseNumber(s, pos)

\* json.loads(text): one value with whitespace around it and nothing else;
\* JSONDecodeError otherwise.
json_loads(s) ==
    LET v == ParseValue(s, SkipWhitespace(s, 1))
    IN  IF v.ok /\ SkipWhitespace(s, v.next) = Len(s) + 1 THEN v ELSE JsonFail

(***************************************************************************)
(* Extraction of the JSON text (parse.py lines 52-58, parse_dspy.py lines  *)
(* 103-109).                                                               *)
(***************************************************************************)
\* The character U+0060 of the code fence.
Backtick == "U+0060"

Fence == <<Backtick, Backtick, Backtick>>

FenceJson == Fence \o <<"j", "s", "o", "n">>

\* The first position from pos on where text t stands; Len(s) + 1: none.
RECURSIVE Find(_, _, _)
Find(s, pos, t) ==
    IF pos > Len(s) THEN Len(s) + 1
    ELSE IF StartsWith(s, pos, t) THEN pos
    ELSE Find(s, pos + 1, t)

\* The end of the whitespace run at pos.
AfterSpace(s, pos) == pos + RunLen(s, Item("space", 0, -1), pos, 0)

\* The first position from pos on where whitespace and the closing fence
\* follow: where the lazy group stops.  Len(s) + 1: none.
RECURSIVE FenceClose(_, _)
FenceClose(s, pos) ==
    IF pos > Len(s) THEN Len(s) + 1
    ELSE IF StartsWith(s, AfterSpace(s, pos), Fence) THEN pos
    ELSE FenceClose(s, pos + 1)

\* re.search of the pattern "fence json, \s*, (.*?), \s*, fence" with
\* re.DOTALL in input_data: group(1), when there is a match.
FencedBlock(input_data) ==
    LET open  == Find(input_data, 1, FenceJson)
        from  == AfterSpace(input_data, open + Len(FenceJson))
        close == FenceClose(input_data, from)
    IN  IF open > Len(input_data) \/ close > Len(input_data)
        THEN [ok |-> FALSE, group |-> <<>>]
        ELSE [ok |-> TRUE, group |-> SubSeq(input_data, from, close - 1)]

\* json_str: the fenced block, or else the whole input, stripped.
ExtractJsonStr(input_data) ==
    IF FencedBlock(input_data).ok
    THEN Strip(FencedBlock(input_data).group)
    ELSE Strip(input_data)

(***************************************************************************)
(* decision_schema.py: Decision, ToolCall, AskHandler.  A validation gives *)
(* the model's fields or a ValidationError.                                *)
(***************************************************************************)
Invalid == [ok |-> FALSE, val |-> PyNone]

Valid(v) == [ok |-> TRUE, val |-> v]

\* ToolCall(**d): name a str, args a dict, both required.
ValidateToolCall(v) ==
    IF /\ v.type = "dict"
       /\ HasKey(v.val, <<"n", "a", "m", "e">>)
       /\ GetKey(v.val, <<"n", "a", "m", "e">>).type = "str"
       /\ HasKey(v.val, <<"a", "r", "g", "s">>)
       /\ GetKey(v.val, <<"a", "r", "g", "s">>).type = "dict"
    THEN Valid(PyDict(<< <<<<"n", "a", "m", "e">>, GetKey(v.val, <<"n", "a", "m", "e">>)>>,
                         <<<<"a", "r", "g", "s">>, GetKey(v.val, <<"a", "r", "g", "s">>)>> >>))
    ELSE Invalid

\* AskHandler(**d): prompt a str, required.
ValidateAskHandler(v) ==
    IF /\ v.type = "dict"
       /\ HasKey(v.val, <<"p", "r", "o", "m", "p", "t">>)
       /\ GetKey(v.val, <<"p", "r", "o", "m", "p", "t">>).type = "str"
    THEN Valid(PyDict(<< <<<<"p", "r", "o", "m", "p", "t">>,
                           GetKey(v.val, <<"p", "r", "o", "m", "p", "t">>)>> >>))
    ELSE Invalid

\* An Optional field: absent or null is None.
ValidateOptional(kvs, k, validated) ==
    IF ~HasKey(kvs, k) \/ GetKey(kvs, k).type = "NoneType" THEN Valid(PyNone)
    ELSE validated

KeyToolCall == <<"t", "o", "o", "l", "_", "c", "a", "l", "l">>

KeyAskHandler == <<"a", "s", "k", "_", "h", "a", "n", "d", "l", "e", "r">>

KeyTimestamp == <<"t", "i", "m", "e", "s", "t", "a", "m", "p">>

\* Line 18: utcnow().isoformat(timespec="seconds") + "Z"
DefaultTimestamp(current_utc) ==
    PyStr(isoformat([current_utc EXCEPT !.microsecond = 0]) \o <<"Z">>)

\* A schema that lets a tool_call pass as it comes.
ValidateDecisionLoose(json_data, current_utc) ==
    IF json_data.type # "dict" THEN Invalid
    ELSE Valid(PyDict(<< <<KeyToolCall,
                           IF HasKey(json_data.val, KeyToolCall)
                           THEN GetKey(json_data.val, KeyToolCall) ELSE PyNone>>,
                         <<KeyAskHandler, PyNone>>,
                         <<KeyTimestamp, DefaultTimestamp(current_utc)>> >>))

\* Decision(**json_data): a TypeError when json_data is no dict; keys that
\* are no fields are ignored; the timestamp defaults to the clock.
ValidateDecision(json_data, current_utc) ==
    IF json_data.type # "dict" THEN Invalid
    ELSE LET kvs == json_data.val
             tc  == ValidateOptional(kvs, KeyToolCall,
                                     ValidateToolCall(GetKey(kvs, KeyToolCall)))
             ah  == ValidateOptional(kvs, KeyAskHandler,
                                     ValidateAskHandler(GetKey(kvs, KeyAskHandler)))
             ts  == IF ~HasKey(kvs, KeyTimestamp) THEN Valid(DefaultTimestamp(current_utc))
                    ELSE IF GetKey(kvs, KeyTimestamp).type = "str"
                    THEN Valid(GetKey(kvs, KeyTimestamp))
                    ELSE Invalid
         IN  IF tc.ok /\ ah.ok /\ ts.ok
             THEN Valid(PyDict(<< <<KeyToolCall, tc.val>>, <<KeyAskHandler, ah.val>>,
                                  <<KeyTimestamp, ts.val>> >>))
             ELSE Invalid

(***************************************************************************)
(* model_dump_json(indent=2) and the legacy conversion.                    *)
(***************************************************************************)
Spaces(n) == [i \in 1..n |-> " "]

RECURSIVE DumpJson(_, _)
RECURSIVE DumpMembers(_, _)
\* The members of a dict, one on a line, at the given depth.
DumpMembers(kvs, depth) ==
    IF kvs = <<>> THEN <<>>
    ELSE Spaces(depth + depth) \o <<"\"">> \o JsonEscape(kvs[1][1]) \o <<"\"", ":", " ">>
         \o DumpJson(kvs[1][2], depth)
         \o (IF Len(kvs) > 1 THEN <<",", "\n">> ELSE <<"\n">>)
         \o DumpMembers(Tail(kvs), depth)

\* The JSON text of a value, indented by two spaces a level.
DumpJson(v, depth) ==
    IF v.type = "dict"
    THEN IF v.val = <<>> THEN <<"{", "}">>
         ELSE <<"{", "\n">> \o DumpMembers(v.val, depth + 1)
              \o Spaces(depth + depth) \o <<"}">>
    ELSE JsonScalar(v)

\* decision.model_dump_json(indent=2)
model_dump_json(decision) == DumpJson(decision, 0)

\* Lines 63-66 of parse.py, 115-117 of parse_dspy.py: {tool_name, parameters}
\* becomes {tool_call: {name, args}}.  The membership test is a TypeError for
\* an int or None; a str goes on and fails at Decision(**json_data).
ConvertLegacy(json_data) ==
    IF json_data.type \in {"int", "NoneType"} THEN Invalid
    ELSE IF /\ json_data.type = "dict"
            /\ HasKey(json_data.val, <<"t", "o", "o", "l", "_", "n", "a", "m", "e">>)
            /\ HasKey(json_data.val, <<"p", "a", "r", "a", "m", "e", "t", "e", "r", "s">>)
    THEN Valid(PyDict(<< <<KeyToolCall,
              PyDict(<< <<<<"n", "a", "m", "e">>,
                          GetKey(json_data.val, <<"t", "o", "o", "l", "_", "n", "a", "m", "e">>)>>,
                        <<<<"a", "r", "g", "s">>,
                          GetKey(json_data.val,
                                 <<"p", "a", "r", "a", "m", "e", "t", "e", "r", "s">>)>> >>)>> >>))
    ELSE Valid(json_data)

(***************************************************************************)
(* What the parsers are given on stdin.                                    *)
(***************************************************************************)
\* A fenced tool_call block with text before it
InputFenced ==
    <<"x", "\n", Backtick, Backtick, Backtick, "j", "s", "o", "n", "\n", "{", "\"", "t", "o",
      "o", "l", "_", "c", "a", "l", "l", "\"", ":", " ", "{", "\"", "n", "a", "m", "e", "\"",
      ":", " ", "\"", "l", "s", "\"", ",", " ", "\"", "a", "r", "g", "s", "\"", ":", " ", "{",
      "\"", "d", "\"", ":", " ", "\"", "/", "\"", "}", "}", "}", "\n", Backtick, Backtick,
      Backtick, "\n">>

\* Plain JSON, no fence
InputPlain ==
    <<"{", "\"", "t", "o", "o", "l", "_", "c", "a", "l", "l", "\"", ":", " ", "{", "\"", "n",
      "a", "m", "e", "\"", ":", " ", "\"", "w", "\"", ",", " ", "\"", "a", "r", "g", "s", "\"",
      ":", " ", "{", "}", "}", "}">>

\* The legacy shape
InputLegacy ==
    <<Backtick, Backtick, Backtick, "j", "s", "o", "n", "\n", "{", "\"", "t", "o", "o", "l",
      "_", "n", "a", "m", "e", "\"", ":", " ", "\"", "l", "s", "\"", ",", " ", "\"", "p", "a",
      "r", "a", "m", "e", "t", "e", "r", "s", "\"", ":", " ", "{", "\"", "d", "\"", ":", " ",
      "\"", "/", "\"", "}", "}", "\n", Backtick, Backtick, Backtick>>

\* An ask_handler
InputAsk ==
    <<Backtick, Backtick, Backtick, "j", "s", "o", "n", " ", "{", "\"", "a", "s", "k", "_",
      "h", "a", "n", "d", "l", "e", "r", "\"", ":", " ", "{", "\"", "p", "r", "o", "m", "p",
      "t", "\"", ":", " ", "\"", "o", "k", "\"", "}", "}", " ", Backtick, Backtick, Backtick>>

\* A timestamp of its own and a key that is no field
InputOwnTimestamp ==
    <<"{", "\"", "t", "i", "m", "e", "s", "t", "a", "m", "p", "\"", ":", " ", "\"", "t", "h",
      "e", "n", "\"", ",", " ", "\"", "n", "o", "t", "e", "\"", ":", " ", "1", "}">>

\* The empty object
InputEmptyObject ==
    <<"{", "}">>

\* Malformed: a comma is missing
InputMalformed ==
    <<Backtick, Backtick, Backtick, "j", "s", "o", "n", "\n", "{", "\"", "t", "o", "o", "l",
      "_", "c", "a", "l", "l", "\"", ":", " ", "{", "\"", "n", "a", "m", "e", "\"", ":", " ",
      "\"", "r", "\"", " ", "\"", "a", "r", "g", "s", "\"", ":", " ", "{", "}", "}", "}", "\n",
      Backtick, Backtick, Backtick>>

\* A tool_call without args
InputNoArgs ==
    <<Backtick, Backtick, Backtick, "j", "s", "o", "n", "\n", "{", "\"", "t", "o", "o", "l",
      "_", "c", "a", "l", "l", "\"", ":", " ", "{", "\"", "n", "a", "m", "e", "\"", ":", " ",
      "\"", "r", "\"", "}", "}", "\n", Backtick, Backtick, Backtick>>

\* Text without JSON
InputNoJson ==
    <<"j", "u", "s", "t", " ", "t", "e", "x", "t">>

\* Nothing
InputNothing ==
    <<>>

\* A fence that is never closed
InputUnclosed ==
    <<Backtick, Backtick, Backtick, "j", "s", "o", "n", " ", "{", "\"", "t", "o", "o", "l",
      "_", "c", "a", "l", "l", "\"", ":", " ", "n", "u", "l", "l", "}">>

\* JSON that is no object
InputNumber ==
    <<"5">>

\* The legacy shape with parameters that are no object
InputLegacyBad ==
    <<"{", "\"", "t", "o", "o", "l", "_", "n", "a", "m", "e", "\"", ":", " ", "\"", "l", "s",
      "\"", ",", " ", "\"", "p", "a", "r", "a", "m", "e", "t", "e", "r", "s", "\"", ":", " ",
      "5", "}">>

Inputs ==
    { InputFenced, InputPlain, InputLegacy, InputAsk,
      InputOwnTimestamp, InputEmptyObject, InputMalformed, InputNoArgs,
      InputNoJson, InputNothing, InputUnclosed, InputNumber,
      InputLegacyBad }

\* decision.txt before the run: absent, or left by an earlier run.
OldFiles == {NoFile, [exists |-> TRUE, content |-> <<"o", "l", "d">>]}

(***************************************************************************)
(* main() of parse.py and of parse_dspy.py, one step per statement.  The   *)
(* two are run on the same input, each in its own directory.               *)
(***************************************************************************)
InitParse ==
    /\ mainPc = "init"
    /\ socket = "none"
    /\ clock \in Nows
    /\ ticks = 0
    /\ received = <<>>
    /\ handlers = [h \in Ids |-> IdleHandler]
    /\ stream = <<>>
    /\ stderr = <<>>
    /\ calls = [h \in Ids |-> NoCalls]
    /\ \E input \in Inputs :
          proc = [s \in Scripts |-> [NoProc EXCEPT !.pc = "read", !.stdin = input]]
    /\ \E old \in OldFiles : decision_txt = [s \in Scripts |-> old]

\* sys.exit(status)
Exited(p, status) == [p EXCEPT !.pc = "exited", !.exit = status]

\* parse.py line 37, parse_dspy.py line 167: sys.stdin.read()
ReadInput(s) ==
    /\ proc[s].pc = "read"
    /\ proc' = [proc EXCEPT ![s].pc = "extract", ![s].input_data = proc[s].stdin]
    /\ UNCHANGED <<listenerVars, decision_txt>>

\* parse.py lines 38-42, parse_dspy.py lines 168-172: Ctrl-C while reading.
ReadInterrupted(s) ==
    /\ proc[s].pc = "read"
    /\ proc' = [proc EXCEPT ![s] = [Exited(proc[s], 1) EXCEPT !.interrupted = TRUE]]
    /\ UNCHANGED <<listenerVars, decision_txt>>

\* parse.py lines 52-58, parse_dspy.py lines 103-109
ExtractJson(s) ==
    /\ proc[s].pc = "extract"
    /\ proc' = [proc EXCEPT ![s].pc = "loads",
                            ![s].json_str = ExtractJsonStr(proc[s].input_data)]
    /\ UNCHANGED <<listenerVars, decision_txt>>

\* parse.py lines 60, 73-75, parse_dspy.py lines 112, 127-131, 200-201:
\* json.loads, and the exit with status 1 on JSONDecodeError.
LoadJson(s) ==
    /\ proc[s].pc = "loads"
    /\ LET r == json_loads(proc[s].json_str)
       IN  proc' = [proc EXCEPT ![s] =
               IF r.ok THEN [proc[s] EXCEPT !.pc = "convert", !.json_data = r.val]
               ELSE Exited(proc[s], 1)]
    /\ UNCHANGED <<listenerVars, decision_txt>>

\* parse.py lines 63-66, 76-78, parse_dspy.py lines 115-117, 127-131
ConvertLegacyStep(s) ==
    /\ proc[s].pc = "convert"
    /\ LET r == ConvertLegacy(proc[s].json_data)
       IN  proc' = [proc EXCEPT ![s] =
               IF r.ok THEN [proc[s] EXCEPT !.pc = "validate", !.json_data = r.val]
               ELSE Exited(proc[s], 1)]
    /\ UNCHANGED <<listenerVars, decision_txt>>

\* parse.py lines 68, 76-78, parse_dspy.py lines 120, 127-131, 200-201:
\* Decision(**json_data), and the exit with status 1 when it raises.
Validate(s) ==
    /\ proc[s].pc = "validate"
    /\ LET r == ValidateDecision(proc[s].json_data, clock)
       IN  proc' = [proc EXCEPT ![s] =
               IF r.ok THEN [proc[s] EXCEPT !.pc = "write", !.decision = r.val]
               ELSE Exited(proc[s], 1)]
    /\ UNCHANGED <<listenerVars, decision_txt>>

\* parse.py lines 71, 81-82: validated_json_str = json_str is what is written.
SavedJson(p) == p.json_str

\* parse_dspy.py lines 124, 194-195: raw_json = decision.model_dump_json(indent=2)
SavedRawJson(p) == model_dump_json(p.decision)

\* parse.py lines 81-82
WriteDecision ==
    /\ proc["parse.py"].pc = "write"
    /\ decision_txt' = [decision_txt EXCEPT
           !["parse.py"] = [exists |-> TRUE, content |-> SavedJson(proc["parse.py"])]]
    /\ proc' = [proc EXCEPT !["parse.py"].pc = "written"]
    /\ UNCHANGED listenerVars

\* parse_dspy.py lines 192-195
WriteDecisionDspy ==
    /\ proc["parse_dspy.py"].pc = "write"
    /\ decision_txt' = [decision_txt EXCEPT
           !["parse_dspy.py"] =
              [exists |-> TRUE, content |-> SavedRawJson(proc["parse_dspy.py"])]]
    /\ proc' = [proc EXCEPT !["parse_dspy.py"].pc = "written"]
    /\ UNCHANGED listenerVars

\* parse.py line 84 and the return of main(); parse_dspy.py line 198.
ExitZero(s) ==
    /\ proc[s].pc = "written"
    /\ proc' = [proc EXCEPT ![s] = Exited(proc[s], 0)]
    /\ UNCHANGED <<listenerVars, decision_txt>>

NextParse ==
    \/ \E s \in Scripts : ReadInput(s)
    \/ \E s \in Scripts : ReadInterrupted(s)
    \/ \E s \in Scripts : ExtractJson(s)
    \/ \E s \in Scripts : LoadJson(s)
    \/ \E s \in Scripts : ConvertLegacyStep(s)
    \/ \E s \in Scripts : Validate(s)
    \/ WriteDecision
    \/ WriteDecisionDspy
    \/ \E s \in Scripts : ExitZero(s)

SpecParse == InitParse /\ [][NextParse]_vars

(***************************************************************************)
(* Properties.                                                             *)
(***************************************************************************)
RECURSIVE SumTo(_, _)
SumTo(f, n) == IF n = 0 THEN 0 ELSE f[n] + SumTo(f, n - 1)

\* xadd calls that appended, and xadd calls that raised, over all datagrams.
Successes == SumTo([h \in Ids |-> calls[h].appended], MaxDatagrams)

Failures == SumTo([h \in Ids |-> calls[h].failed], MaxDatagrams)

\* Every received datagram's handler has ended.
AllDone == \A h \in Ids : h <= Len(received) => handlers[h].pc = "done"

\* The text handle() parses for datagram h.
MessageOf(h) == Strip(Decode(received[h]))

\* C1: every received datagram causes exactly one parse_syslog_message call
\* and exactly one write (append) call: never more than one of each, none
\* for a datagram not received, one of each once the handler has called
\* write; and when every handler has ended and no append failed, the stream
\* holds exactly as many records as datagrams were received.
C1_ExactlyOnce ==
    /\ \A h \in Ids :
          /\ calls[h].parse <= 1 /\ calls[h].write <= 1 /\ calls[h].xadd <= 1
          /\ h > Len(received) =>
                calls[h].parse = 0 /\ calls[h].write = 0 /\ calls[h].xadd = 0
          /\ handlers[h].pc \in {"xadd", "stalled", "done"} =>
                calls[h].parse = 1 /\ calls[h].write = 1 /\ calls[h].xadd = 1
    /\ (AllDone /\ Failures = 0) =>
          /\ SumTo([h \in Ids |-> calls[h].xadd], MaxDatagrams) = Len(received)
          /\ Len(stream) = Len(received)

\* Two different datagrams were handled at once (the second one's record
\* came first) and each was appended once.
C1_Witness ==
    /\ Len(received) = 2
    /\ received[1] # received[2]
    /\ AllDone
    /\ Failures = 0
    /\ Len(stream) = 2
    /\ stream[1].fields["raw"].val = MessageOf(2)
    /\ stream[2].fields["raw"].val = MessageOf(1)

\* A step in which the xadd of handler h raises.
FailureStep(h) == calls'[h].failed > calls[h].failed

\* C2 (state part): after any number of failed appends the listener that
\* was listening still is, and takes the next datagram; a datagram received
\* after a failure gets its own parse and its own append attempt.
C2_StillServing ==
    /\ (State = "Listening" /\ Len(received) < MaxDatagrams) =>
          ENABLED (\E d \in Datagrams : ReceiveDatagram(d))
    /\ \A h \in Ids :
          (calls[h].priorErrors > 0 /\ handlers[h].pc \in {"xadd", "stalled", "done"}) =>
             calls[h].parse = 1 /\ calls[h].xadd = 1

\* C2 (step part): a failing append changes nothing but its own handler and
\* the error output.
C2_FailureConfined ==
    \A h \in Ids :
       FailureStep(h) =>
          /\ State' = State
          /\ mainPc' = mainPc
          /\ socket' = socket
          /\ received' = received
          /\ \A o \in Ids \ {h} : handlers'[o] = handlers[o]

\* C2: error isolation: a failed append is confined to its datagram's
\* handler; the listener stays Listening, does not terminate, and datagrams
\* arriving afterwards are received, parsed and given an append attempt.
C2_ErrorIsolation == []C2_StillServing /\ [][C2_FailureConfined]_vars

\* The first datagram's append failed; the second datagram was received
\* after that, and was parsed and appended while the server kept serving.
C2_Witness ==
    /\ calls[1].failed = 1
    /\ State = "Listening"
    /\ Len(received) = 2
    /\ calls[2].priorErrors = 1
    /\ calls[2].parse = 1
    /\ calls[2].appended = 1

\* Handler h has just returned from parse_syslog_message.
Parsed(h) == handlers[h].pc = "stamp" /\ calls[h].parse = 1

StructuredKeys == {"pri", "facility", "severity", "host", "tag", "message"}

\* Key k is in the dict with a value other than None.
Present(d, k) == k \in DOMAIN d /\ d[k].type # "NoneType"

\* C3: for every line that does not match the grammar from position 0,
\* parse_syslog_message returns exactly {raw: <the line>}: raw is the only
\* key and its value is the input text.
C3_MissIsRawOnly ==
    \A h \in Ids :
       (Parsed(h) /\ ~PatternMatch(handlers[h].message).ok) =>
          /\ DOMAIN handlers[h].event = {"raw"}
          /\ handlers[h].event["raw"] = PyStr(handlers[h].message)

\* The unframed line of the test has been parsed.
C3_Witness ==
    /\ Parsed(1)
    /\ handlers[1].message =
          <<"r", "a", "n", "d", "o", "m", " ", "l", "i", "n", "e", " ",
            "w", "i", "t", "h", "o", "u", "t", " ", "s", "y", "s", "l", "o", "g", " ",
            "f", "r", "a", "m", "i", "n", "g">>
    /\ DOMAIN handlers[1].event = {"raw"}

\* C4: for every matching line, whatever its PRI value, the event carries
\* pri, facility and severity with pri = 8 * facility + severity and
\* 0 <= severity <= 7 (facility = pri div 8, severity = pri mod 8); a PRI
\* above 191 is decoded like any other and the line is not a miss.
C4_PriDecoded ==
    \A h \in Ids :
       LET m == PatternMatch(handlers[h].message)
           e == handlers[h].event
       IN  (Parsed(h) /\ m.ok) =>
              /\ {"pri", "facility", "severity"} \subseteq DOMAIN e
              /\ e["pri"] = PyInt(CharsToInt(Group(handlers[h].message, m, 2, 2)))
              /\ e["facility"].type = "int" /\ e["severity"].type = "int"
              /\ e["pri"].val = 8 * e["facility"].val + e["severity"].val
              /\ e["severity"].val >= 0 /\ e["severity"].val <= 7
              /\ e["facility"].val >= 0

\* A line with PRI 1000 parsed into facility 125, severity 0.
C4_Witness ==
    /\ Parsed(1)
    /\ "pri" \in DOMAIN handlers[1].event
    /\ handlers[1].event["pri"].val = 1000
    /\ handlers[1].event["facility"].val = 125
    /\ handlers[1].event["severity"].val = 0

\* C5: every event produced for a datagram has raw, and has pri, facility,
\* severity, host, tag and message either all set or all absent; timestamp
\* is the only field that may be null beside the others set, and is absent
\* when they are.
C5_AllOrNothing ==
    \A h \in Ids :
       LET e == handlers[h].event
       IN  (calls[h].parse = 1 /\ handlers[h].pc \in {"stamp", "write", "xadd", "stalled"}) =>
              /\ Present(e, "raw")
              /\ \/ \A k \in StructuredKeys : Present(e, k)
                 \/ \A k \in StructuredKeys \cup {"timestamp"} : k \notin DOMAIN e
              /\ DOMAIN e \subseteq
                    StructuredKeys \cup {"raw", "timestamp", "received_at"}

\* A matching line whose timestamp did not resolve: timestamp is None and
\* the other fields are set.
C5_Witness ==
    /\ Parsed(1)
    /\ "timestamp" \in DOMAIN handlers[1].event
    /\ handlers[1].event["timestamp"] = PyNone
    /\ \A k \in StructuredKeys : Present(handlers[1].event, k)

\* The text a value must be stored as.
StoredAs(text, value) ==
    CASE value.type = "str"  -> text = value.val
      [] value.type = "int"  -> text # <<>> /\ (value.val >= 0 => CharsToInt(text) = value.val)
      [] value.type = "list" -> text[1] = "[" /\ text[Len(text)] = "]"
      [] value.type = "dict" -> text[1] = "{" /\ text[Len(text)] = "}"
      [] OTHER -> FALSE

\* write() has built the payload of handler h and called xadd.
Written(h) == handlers[h].pc = "xadd" /\ calls[h].write = 1

\* C6: for every event, the keys of the record write() appends are exactly
\* the event's keys whose value is not None; every value of the record is a
\* string: the text itself for a string, its decimal form for an integer,
\* JSON text for a list or a dict; a None value leaves no key behind.
C6_Serialization ==
    /\ \A h \in Ids :
          LET e == handlers[h].event
              r == handlers[h].payload
          IN  Written(h) =>
                 /\ DOMAIN r = {k \in DOMAIN e : e[k].type # "NoneType"}
                 /\ \A k \in DOMAIN r : r[k].type = "str" /\ StoredAs(r[k].val, e[k])
    /\ \A i \in DOMAIN stream :
          \A k \in DOMAIN stream[i].fields : stream[i].fields[k].type = "str"

\* An event with a None value and a dict value has been serialized.
C6_Witness ==
    /\ Written(1)
    /\ \E k \in DOMAIN handlers[1].event : handlers[1].event[k].type = "NoneType"
    /\ \E k \in DOMAIN handlers[1].event : handlers[1].event[k].type = "dict"

\* C7: a write() call makes exactly one xadd call; it ends either with the
\* record appended (and only then returns) or with the error passed on to
\* the caller, never both, and the append is not tried again.
C7_WriteOnceOrRaise ==
    /\ \A h \in Ids :
          /\ calls[h].xadd = calls[h].write
          /\ calls[h].xadd <= 1
          /\ calls[h].appended + calls[h].failed <= calls[h].xadd
          /\ handlers[h].pc = "done" => calls[h].appended + calls[h].failed = 1
    /\ Len(stream) = Successes
    /\ Len(stderr) = Failures

\* A write that raised after its one attempt and appended nothing.
C7_Witness ==
    /\ handlers[1].pc = "done"
    /\ calls[1].xadd = 1
    /\ calls[1].failed = 1
    /\ calls[1].appended = 0
    /\ stream = <<>>

\* C8 (step part): a step leaves the stream alone or adds one record at its
\* end, and adds one exactly when a write succeeds.
C8_Step ==
    /\ \/ stream' = stream
       \/ /\ Len(stream') = Len(stream) + 1
          /\ SubSeq(stream', 1, Len(stream)) = stream
    /\ (\E h \in Ids : calls'[h].appended > calls[h].appended) <=> stream' # stream
    /\ (\E h \in Ids : FailureStep(h)) => stream' = stream

\* C8: the stream only grows at its end: its length is the number of writes
\* that succeeded, a successful write adds one record after the others and
\* leaves them as they were, a failed write adds none.
C8_AppendOnly == [](Len(stream) = Successes) /\ [][C8_Step]_vars

\* Two writes succeeded with the same payload: two records.
C8_Witness ==
    /\ Successes = 2
    /\ Len(stream) = 2
    /\ stream[1].fields = stream[2].fields
    /\ stream[1].id # stream[2].id

\* C9: when the append for a datagram fails, the error output identifies the
\* raw text of the dropped event, and no second append is tried.
C9_FailureLogsRaw ==
    \A h \in Ids :
       calls[h].failed > 0 =>
          /\ calls[h].xadd <= 1
          /\ \E i \in DOMAIN stderr :
                /\ "raw" \in DOMAIN stderr[i]
                /\ stderr[i].raw = MessageOf(h)

\* A handler starts in this step.
HandlerStarts == \E h \in Ids : handlers[h].pc = "idle" /\ handlers'[h].pc # "idle"

\* C10 (step part): the state changes only from Stopped to Listening at
\* start-up and from Listening to Stopped; a handler starts only while
\* Listening.
C10_Step ==
    /\ (State = "Stopped" /\ State' = "Listening") => mainPc = "init"
    /\ (State = "Stopped" /\ mainPc # "init") => State' = "Stopped"
    /\ HandlerStarts => State = "Listening" /\ State' = "Listening"

\* C10: the listener goes Stopped -> Listening -> Stopped and nowhere else;
\* handlers start only while it is Listening, and none starts after the
\* shutdown request.
C10_Lifecycle ==
    /\ [](State \in {"Stopped", "Listening"})
    /\ []((mainPc \in {"init", "crashed"}) => \A h \in Ids : handlers[h].pc = "idle")
    /\ [][C10_Step]_vars
    /\ [][(mainPc \in {"interrupted", "joining", "exited"}) =>
             (~HandlerStarts /\ received' = received)]_vars

\* The server has been started, has handled a datagram and has stopped.
C10_Witness ==
    /\ mainPc = "exited"
    /\ socket = "closed"
    /\ Len(received) = MaxDatagrams
    /\ AllDone

\* C11: graceful stop: once the shutdown has returned (main() is past
\* server_close) the socket is released and every handler that was in flight
\* when the shutdown was requested has finished, by appending or by failing;
\* no handler is still running.
C11_GracefulStop ==
    mainPc = "exited" =>
       /\ socket = "closed"
       /\ \A h \in Ids :
             /\ handlers[h].pc \in {"idle", "done"}
             /\ calls[h].inFlightAtStop =>
                   /\ handlers[h].pc = "done"
                   /\ calls[h].appended + calls[h].failed = 1

\* The shutdown returned after waiting for two handlers that were running
\* when it was requested: one had not yet parsed, one was inside xadd.
C11_Witness ==
    /\ mainPc = "exited"
    /\ \A h \in Ids : calls[h].inFlightAtStop
    /\ calls[1].appended = 1
    /\ calls[2].failed = 1

\* Every handler has ended or is inside an xadd that will never return.
OnlyStalledLeft == \A h \in Ids : handlers[h].pc \in {"idle", "done", "stalled"}

\* C12: the shutdown terminates: after the interrupt the process goes on to
\* exit even when an in-flight append never returns; once the socket is
\* closed and only handlers blocked for good are left, main() can return
\* (the blocked handler is abandoned).
C12_ShutdownTerminates ==
    (mainPc = "joining" /\ OnlyStalledLeft) => ENABLED JoinThreads

\* C13: every append is bounded in time: a handler that has called xadd can
\* always still get its answer, a record identifier or an error (a timeout),
\* so that no handler stays in flight for good when the destination stalls.
C13_AppendBounded ==
    \A h \in Ids :
       (calls[h].xadd = 1 /\ handlers[h].pc # "done") =>
          ENABLED (XaddReturns(h) \/ XaddRaises(h))

\* The handlers running at once.
RunningHandlers == {h \in Ids : Running(h)}

\* A ceiling that the datagrams of a run can reach.
Ceiling == MaxDatagrams - 1

\* C14: concurrency ceiling: never more than Ceiling handlers run at once;
\* a datagram that arrives while Ceiling handlers are running waits for a
\* free slot instead of being started.
C14_ConcurrencyCeiling == Cardinality(RunningHandlers) <= Ceiling

\* Handler h is inside self.redis.xadd.
InXadd(h) == handlers[h].pc \in {"xadd", "stalled"}

C16_Step ==
    \A h \in Ids :
       calls'[h].appended > calls[h].appended =>
          /\ Len(stream') = Len(stream) + 1
          /\ stream'[Len(stream')].fields = handlers[h].payload
          /\ \A i \in DOMAIN stream : stream'[i] = stream[i]

ParseStep(h) == calls'[h].parse > calls[h].parse

\* The fields of a timestamp printed as YYYY-MM-DDTHH:MM:SSZ.
IsoFields(text) ==
    DateTime(CharsToInt(SubSeq(text, 1, 4)), CharsToInt(SubSeq(text, 6, 7)),
             CharsToInt(SubSeq(text, 9, 10)), CharsToInt(SubSeq(text, 12, 13)),
             CharsToInt(SubSeq(text, 15, 16)), CharsToInt(SubSeq(text, 18, 19)), 0)

\* The timestamp token of a line that matches the grammar.
TokenOf(message) == Group(message, PatternMatch(message), 4, 12)

\* C17 (step part): the year of a resolved timestamp is the current year
\* less one when the token placed in the current year is strictly later than
\* the current time, and the current year when it is equal or earlier.
C17_Step ==
    \A h \in Ids :
       (ParseStep(h) /\ Present(handlers'[h].event, "timestamp")) =>
          LET resolved  == IsoFields(handlers'[h].event["timestamp"].val)
              candidate == [resolved EXCEPT !.year = clock.year]
          IN  /\ resolved.year =
                    IF DtGreater(candidate, clock) THEN clock.year - 1 ELSE clock.year
              /\ (/\ TokenOf(handlers[h].message) =
                         <<"D", "e", "c", " ", "3", "1", " ", "2", "3", ":", "5", "9", ":", "5", "9">>
                  /\ clock = DateTime(2024, 1, 1, 0, 0, 1, 0)) =>
                    resolved = DateTime(2023, 12, 31, 23, 59, 59, 0)

\* C17: year rollback: a token that, paired with the current year, lies
\* strictly after the current time is resolved into the year before, by
\* exactly one year ("Dec 31 23:59:59" read at Jan 1 00:00:01 is Dec 31 of
\* the previous year); a candidate equal to or earlier than the current time
\* keeps the current year.
C17_YearRollback == [][C17_Step]_vars

\* "Dec 31 23:59:59" was resolved at 2024-01-01 00:00:01 into 2023.
C17_Witness ==
    /\ Parsed(1)
    /\ ticks = 0
    /\ clock = DateTime(2024, 1, 1, 0, 0, 1, 0)
    /\ PatternMatch(handlers[1].message).ok
    /\ TokenOf(handlers[1].message) =
          <<"D", "e", "c", " ", "3", "1", " ", "2", "3", ":", "5", "9", ":", "5", "9">>
    /\ Present(handlers[1].event, "timestamp")
    /\ IsoFields(handlers[1].event["timestamp"].val).year = 2023

\* The most days month mo has in any year.
LongestMonth(mo) == IF mo = 2 THEN 29 ELSE DaysInMonth(1, mo)

\* The timestamp token of a matching line names no calendar date in any
\* year: unknown month, day out of the month, hour, minute or second out of
\* range.
InvalidToken(message) ==
    LET m   == PatternMatch(message)
        mon == LowerAll(Group(message, m, 4, 4))
        day == CharsToInt(Group(message, m, 6, 6))
    IN  \/ \A i \in DOMAIN MonthAbbr : MonthAbbr[i] # mon
        \/ day < 1
        \/ \E i \in DOMAIN MonthAbbr : MonthAbbr[i] = mon /\ day > LongestMonth(i)
        \/ CharsToInt(Group(message, m, 8, 8)) > 23
        \/ CharsToInt(Group(message, m, 10, 10)) > 59
        \/ CharsToInt(Group(message, m, 12, 12)) > 59

\* The line matches the grammar and its timestamp token is no calendar date.
MatchWithInvalidToken(message) == PatternMatch(message).ok /\ InvalidToken(message)

\* Every record of the stream comes from a handler that parsed its line.
AllParsed == \A h \in Ids : calls[h].appended = 1 => calls[h].parse = 1

\* C18: partial resolution failure: for every line that matches the grammar
\* but whose timestamp token is not a valid calendar date (day 99, hour 25)
\* parse_syslog_message returns an event, with timestamp None and with pri,
\* facility, severity, host, tag and message all populated; the payload built
\* for it and the record appended have no timestamp key.
C18_PartialResolution ==
    /\ \A h \in Ids :
          (/\ calls[h].parse = 1
           /\ handlers[h].pc \in {"stamp", "write", "xadd", "stalled"}
           /\ MatchWithInvalidToken(handlers[h].message)) =>
             /\ "timestamp" \in DOMAIN handlers[h].event
             /\ handlers[h].event["timestamp"] = PyNone
             /\ \A k \in StructuredKeys : Present(handlers[h].event, k)
             /\ handlers[h].pc \in {"xadd", "stalled"} =>
                   /\ "timestamp" \notin DOMAIN handlers[h].payload
                   /\ StructuredKeys \subseteq DOMAIN handlers[h].payload
    /\ AllParsed =>
          \A i \in DOMAIN stream :
             MatchWithInvalidToken(stream[i].fields["raw"].val) =>
                /\ "timestamp" \notin DOMAIN stream[i].fields
                /\ StructuredKeys \subseteq DOMAIN stream[i].fields

\* A line with day 99 was parsed and its record appended without timestamp.
C18_Witness ==
    /\ calls[1].parse = 1
    /\ Len(stream) = 1
    /\ PatternMatch(stream[1].fields["raw"].val).ok
    /\ Group(stream[1].fields["raw"].val, PatternMatch(stream[1].fields["raw"].val), 6, 6)
          = <<"9", "9">>
    /\ "timestamp" \notin DOMAIN stream[1].fields
    /\ StructuredKeys \subseteq DOMAIN stream[1].fields

\* C20: a framing miss succeeds downstream: the handler of a datagram whose
\* text does not match the grammar still makes its one append, and the record
\* has exactly the keys raw and received_at; every event handed to the
\* writer, matching or not, carries raw and received_at, and received_at is
\* added by the handler after parse_syslog_message has returned, never by
\* the parser.
C20_MissIsAppended ==
    /\ \A h \in Ids :
          LET e    == handlers[h].event
              miss == ~PatternMatch(handlers[h].message).ok
          IN  calls[h].parse = 1 =>
                 /\ handlers[h].pc = "stamp" =>
                       "raw" \in DOMAIN e /\ "received_at" \notin DOMAIN e
                 /\ handlers[h].pc = "write" => ENABLED HandleWrite(h)
                 /\ (handlers[h].pc = "write" \/ InXadd(h)) =>
                       /\ {"raw", "received_at"} \subseteq DOMAIN e
                       /\ e["raw"] = PyStr(handlers[h].message)
                       /\ e["received_at"].type = "str"
                       /\ miss => DOMAIN e = {"raw", "received_at"}
                 /\ (InXadd(h) /\ miss) =>
                       /\ calls[h].xadd = 1
                       /\ DOMAIN handlers[h].payload = {"raw", "received_at"}
                       /\ handlers[h].payload["raw"] = PyStr(handlers[h].message)
    /\ AllParsed =>
          \A i \in DOMAIN stream :
             /\ {"raw", "received_at"} \subseteq DOMAIN stream[i].fields
             /\ ~PatternMatch(stream[i].fields["raw"].val).ok =>
                   DOMAIN stream[i].fields = {"raw", "received_at"}

\* The record of a line without syslog framing is in the stream: raw and
\* received_at and nothing else.
C20_Witness ==
    /\ calls[1].parse = 1
    /\ calls[1].appended = 1
    /\ Len(stream) = 1
    /\ ~PatternMatch(stream[1].fields["raw"].val).ok
    /\ stream[1].fields["raw"].val # <<>>
    /\ DOMAIN stream[1].fields = {"raw", "received_at"}

\* The head of the grammar, <PRI>MMM DD HH:MM:SS HOST TAG: , with nothing
\* said about what follows it.
HeadMatch(message) == MatchItems(message, SubSeq(SYSLOG_PATTERN, 1, 17), FALSE, 1, 1)

\* The text after the colon that ends the head.
BodyAfterHead(message) ==
    SubSeq(message, HeadMatch(message).ends[17], Len(message))

\* The head matches and the body has a newline that is not the last
\* character of the line.
EmbeddedNewline(message) ==
    /\ HeadMatch(message).ok
    /\ \E i \in HeadMatch(message).ends[17]..(Len(message) - 1) : message[i] = "\n"

\* Text b is text a, or a less one leading space.
UpToOneSpace(a, b) == b = a \/ (a # <<>> /\ a[1] = " " /\ b = Tail(a))

\* C21: embedded newlines in BODY: a line whose head matches and whose body
\* holds a newline that is not its last character is parsed as a structured
\* event, pri, host and tag populated, whose message is the body with the
\* newline in it; it is no parse miss and the body is not cut.
C21_NewlineKept ==
    \A h \in Ids :
       (Parsed(h) /\ EmbeddedNewline(handlers[h].message)) =>
          /\ \A k \in {"pri", "host", "tag", "message"} : Present(handlers[h].event, k)
          /\ UpToOneSpace(BodyAfterHead(handlers[h].message),
                          handlers[h].event["message"].val)

\* The first position from pos on whose character is (is not) whitespace,
\* or is a colon; Len(s) + 1 when there is none.
RECURSIVE SkipSpaces(_, _)
SkipSpaces(s, pos) ==
    IF pos <= Len(s) /\ InClass(s[pos], "space") THEN SkipSpaces(s, pos + 1) ELSE pos

RECURSIVE NextSpace(_, _)
NextSpace(s, pos) ==
    IF pos <= Len(s) /\ ~InClass(s[pos], "space") THEN NextSpace(s, pos + 1) ELSE pos

RECURSIVE NextColon(_, _)
NextColon(s, pos) ==
    IF pos <= Len(s) /\ s[pos] # ":" THEN NextColon(s, pos + 1) ELSE pos

\* Where the fields of a matching line lie, read off the line itself: the
\* host is the run of non-whitespace after the timestamp, the tag starts
\* after the whitespace that follows the host, the colon is the first one
\* from there on.
Segments(message) ==
    LET hostStart == SkipSpaces(message, PatternMatch(message).ends[12])
        hostEnd   == NextSpace(message, hostStart)
        tagStart  == SkipSpaces(message, hostEnd)
        colon     == NextColon(message, tagStart)
    IN  [host |-> SubSeq(message, hostStart, hostEnd - 1),
         tagStart |-> tagStart,
         colon |-> colon,
         tag  |-> SubSeq(message, tagStart, colon - 1),
         rest |-> SubSeq(message, colon + 1, Len(message))]

\* "<34>Oct 11 22:14:15 mymachine su: 'su root' failed" gives pri 34, host
\* mymachine, tag su and the body as it is.
ScenarioSegmented(message, e) ==
    message = ScenarioPri \o ScenarioTimestamp \o
              <<" ", "m", "y", "m", "a", "c", "h", "i", "n", "e", " ", "s", "u", ":", " ",
                "'", "s", "u", " ", "r", "o", "o", "t", "'", " ", "f", "a", "i", "l", "e", "d">>
    => /\ e["pri"] = PyInt(34)
       /\ e["host"] = PyStr(<<"m", "y", "m", "a", "c", "h", "i", "n", "e">>)
       /\ e["tag"] = PyStr(<<"s", "u">>)
       /\ e["message"] = PyStr(<<"'", "s", "u", " ", "r", "o", "o", "t", "'", " ",
                                 "f", "a", "i", "l", "e", "d">>)

\* C22: field segmentation of a matching line: host is the run of
\* non-whitespace characters after the timestamp, tag is the text after the
\* whitespace that follows the host up to, not including, the first colon,
\* message is the rest of the line after that colon less at most one leading
\* space (a second one is kept); the scenario line gives pri 34, host
\* mymachine, tag su and its body unchanged.
C22_Segmentation ==
    \A h \in Ids :
       (Parsed(h) /\ PatternMatch(handlers[h].message).ok) =>
          LET e   == handlers[h].event
              seg == Segments(handlers[h].message)
          IN  /\ e["host"] = PyStr(seg.host)
              /\ e["tag"] = PyStr(seg.tag)
              /\ UpToOneSpace(seg.rest, e["message"].val)
              /\ ScenarioSegmented(handlers[h].message, e)

\* The text without its final newline, and without its first character when
\* that is whitespace.
DropFinalNewline(s) ==
    IF s # <<>> /\ s[Len(s)] = "\n" THEN SubSeq(s, 1, Len(s) - 1) ELSE s

DropLeadingSpace(s) == IF s # <<>> /\ InClass(s[1], "space") THEN Tail(s) ELSE s

\* C22 (amended): as C22, with two cases set right: when nothing but
\* whitespace lies between the host and the colon, the tag is the last
\* character of that whitespace, not the empty text; and the message is the
\* rest of the line without a newline that ends the line, less exactly one
\* leading whitespace character when there is one.
C22_SegmentationAmended ==
    \A h \in Ids :
       (Parsed(h) /\ PatternMatch(handlers[h].message).ok) =>
          LET e   == handlers[h].event
              seg == Segments(handlers[h].message)
          IN  /\ e["host"] = PyStr(seg.host)
              /\ e["tag"] = IF seg.tag # <<>> THEN PyStr(seg.tag)
                            ELSE PyStr(<<handlers[h].message[seg.colon - 1]>>)
              /\ e["message"] = PyStr(DropLeadingSpace(DropFinalNewline(seg.rest)))
              /\ ScenarioSegmented(handlers[h].message, e)

\* A line with two spaces and nothing else between host and colon has been
\* parsed: its tag is one space and its message the body less one space.
C22_Witness ==
    /\ Parsed(1)
    /\ PatternMatch(handlers[1].message).ok
    /\ Segments(handlers[1].message).tag = <<>>
    /\ handlers[1].event["tag"] = PyStr(<<" ">>)
    /\ handlers[1].event["host"] = PyStr(<<"h">>)
    /\ handlers[1].event["message"] = PyStr(<<"x">>)

\* The month, day, hour, minute and second the timestamp token of a matching
\* line names (month 0: no month of that name), with year y.
TokenFields(message, y) ==
    LET m   == PatternMatch(message)
        mon == LowerAll(Group(message, m, 4, 4))
    IN  DateTime(y,
                 IF \E i \in DOMAIN MonthAbbr : MonthAbbr[i] = mon
                 THEN CHOOSE i \in DOMAIN MonthAbbr : MonthAbbr[i] = mon
                 ELSE 0,
                 CharsToInt(Group(message, m, 6, 6)),
                 CharsToInt(Group(message, m, 8, 8)),
                 CharsToInt(Group(message, m, 10, 10)),
                 CharsToInt(Group(message, m, 12, 12)),
                 0)

\* C27 (step part): a timestamp resolved at current time T is not later than
\* T, is in the year of T or the year before, and has the month, day, hour,
\* minute and second of the token.
C27_Step ==
    \A h \in Ids :
       (ParseStep(h) /\ Present(handlers'[h].event, "timestamp")) =>
          LET resolved == IsoFields(handlers'[h].event["timestamp"].val)
          IN  /\ ~DtGreater(resolved, clock)
              /\ resolved.year \in {clock.year, clock.year - 1}
              /\ resolved = TokenFields(handlers[h].message, resolved.year)

\* C27: resolved timestamps are never in the future and keep the fields of
\* the token: whenever _parse_timestamp resolves a token at current time T
\* the result is not later than T, its year is that of T or one less, and its
\* month, day, hour, minute and second are the token's.
C27_NeverInFuture == [][C27_Step]_vars

\* "Oct 11 22:14:15" was resolved at 2025-06-15 12:00:00.25: October 11 of
\* 2024, 22:14:15.
C27_Witness ==
    /\ Parsed(1)
    /\ ticks = 0
    /\ clock = DateTime(2025, 6, 15, 12, 0, 0, 250000)
    /\ Present(handlers[1].event, "timestamp")
    /\ IsoFields(handlers[1].event["timestamp"].val) = DateTime(2024, 10, 11, 22, 14, 15, 0)
    /\ TokenFields(handlers[1].message, 2024) = DateTime(2024, 10, 11, 22, 14, 15, 0)

\* C28 (step part): a token that names a calendar date of the current year
\* is resolved.
C28_Step ==
    \A h \in Ids :
       (/\ ParseStep(h)
        /\ PatternMatch(handlers[h].message).ok
        /\ TokenFields(handlers[h].message, clock.year).month # 0
        /\ ValidDateTime(TokenFields(handlers[h].message, clock.year))) =>
          Present(handlers'[h].event, "timestamp")

\* C28: resolution fails only for invalid dates: whenever the token names a
\* valid calendar date in the current year, _parse_timestamp returns a
\* resolved timestamp, also for a Feb 29 token read in a leap year before
\* Feb 29, where the date has to be moved into the year before.
C28_ResolvesValid == [][C28_Step]_vars

\* Handler h takes a step of handle().
HandlerStep(h) == handlers[h].pc # "idle" /\ handlers'[h] # handlers[h]

\* C29 (step part): a step of a handler changes nothing of the server and
\* nothing of another handler; the stream changes only by the append of the
\* handler's own xadd, the error output only when that xadd raises; the step
\* that calls parse_syslog_message changes the handler's event and nothing
\* else.
C29_Step ==
    \A h \in Ids :
       HandlerStep(h) =>
          /\ mainPc' = mainPc /\ socket' = socket /\ clock' = clock
          /\ received' = received
          /\ \A o \in Ids \ {h} : handlers'[o] = handlers[o] /\ calls'[o] = calls[o]
          /\ stream' # stream =>
                /\ calls'[h].appended > calls[h].appended
                /\ stream' = Append(stream, stream'[Len(stream')])
                /\ stream'[Len(stream')].fields = handlers[h].payload
          /\ stderr' # stderr => FailureStep(h)
          /\ ParseStep(h) =>
                /\ stream' = stream /\ stderr' = stderr
                /\ handlers'[h] = [handlers[h] EXCEPT !.pc = "stamp",
                                                      !.event = handlers'[h].event]

\* C29: handler frame condition: handling a datagram changes no state shared
\* with other handlers but the destination stream, through the writer;
\* parse_syslog_message writes nothing; the event of one datagram is never
\* changed by another handler; when a handler has ended nothing of its
\* datagram is left in it.
C29_Frame ==
    /\ [](\A h \in Ids :
             handlers[h].pc = "done" => handlers[h] = [IdleHandler EXCEPT !.pc = "done"])
    /\ [][C29_Step]_vars

\* The handler of the first datagram has ended and left its record in the
\* stream; the handler of the second, a different datagram, holds its own
\* event.
C29_Witness ==
    /\ handlers[1] = [IdleHandler EXCEPT !.pc = "done"]
    /\ calls[1].appended = 1
    /\ Len(stream) = 1
    /\ handlers[2].pc = "write"
    /\ handlers[2].event["raw"] # stream[1].fields["raw"]

(***************************************************************************)
(* The parser scripts.                                                     *)
(***************************************************************************)
\* Inputs without JSON, with malformed JSON, and with JSON that is no
\* Decision.
NoJsonInputs == {InputNoJson, InputNothing}

MalformedInputs == {InputMalformed, InputUnclosed}

SchemaInvalidInputs == {InputNoArgs, InputNumber, InputLegacyBad}

RejectedInputs == NoJsonInputs \cup MalformedInputs \cup SchemaInvalidInputs

\* The script has run to its end without a Ctrl-C.
Completed(s) == proc[s].pc = "exited" /\ ~proc[s].interrupted

\* decision.txt of the script's directory is not what was there at the start.
FileWritten(s) == decision_txt[s] \notin OldFiles

\* The object in the script's decision.txt, and a field of it, None when the
\* object has no such field.
FileJson(s) == json_loads(decision_txt[s].content)

FileField(s, k) ==
    IF FileJson(s).ok /\ FileJson(s).val.type = "dict" /\ HasKey(FileJson(s).val.val, k)
    THEN GetKey(FileJson(s).val.val, k)
    ELSE PyNone

C23_Step ==
    proc["parse.py"].stdin \in RejectedInputs =>
        /\ decision_txt'["parse.py"] = decision_txt["parse.py"]
        /\ proc'["parse.py"].pc \notin {"write", "written"}
        /\ proc'["parse.py"].pc = "exited" => proc'["parse.py"].exit # 0

\* C23: when the input holds no parseable JSON, malformed JSON, or JSON that
\* does not satisfy the Decision schema (such as a tool_call without args),
\* parse.py never creates or writes decision.txt, never comes to the write,
\* and exits with a non-zero status.
C23_FailureLeavesNoFile == [][C23_Step]_vars

\* parse.py has run to its end on the tool_call without args, in a directory
\* without decision.txt: status 1 and still no file.
C23_Witness ==
    /\ proc["parse.py"].stdin = InputNoArgs
    /\ Completed("parse.py")
    /\ proc["parse.py"].json_data # PyNone
    /\ proc["parse.py"].exit = 1
    /\ decision_txt["parse.py"] = NoFile

\* The tool_call the legacy object of InputLegacy stands for.
LegacyToolCall ==
    PyDict(<< <<<<"n", "a", "m", "e">>, PyStr(<<"l", "s">>)>>,
              <<<<"a", "r", "g", "s">>,
                PyDict(<< <<<<"d">>, PyStr(<<"/">>)>> >>)>> >>)

\* C24: for input JSON in the legacy shape {tool_name, parameters}, parse.py
\* succeeds and the decision.txt it writes contains a tool_call object whose
\* name is the legacy tool_name and whose args are the legacy parameters.
C24_LegacyConverted ==
    (proc["parse.py"].stdin = InputLegacy /\ Completed("parse.py")) =>
        /\ proc["parse.py"].exit = 0
        /\ FileWritten("parse.py")
        /\ FileField("parse.py", KeyToolCall) = LegacyToolCall

\* Text of the form YYYY-MM-DDTHH:MM:SSZ.
IsIsoZ(text) ==
    /\ Len(text) = 20
    /\ text[5] = "-" /\ text[8] = "-" /\ text[11] = "T"
    /\ text[14] = ":" /\ text[17] = ":" /\ text[20] = "Z"
    /\ \A i \in (1..19) \ {5, 8, 11, 14, 17} : text[i] \in DigitChars

\* C25: for every input that parse.py accepts, the JSON written to
\* decision.txt contains a timestamp field in ISO form ending in Z, also when
\* the input JSON itself carried no timestamp.
C25_TimestampAdded ==
    (Completed("parse.py") /\ proc["parse.py"].exit = 0) =>
        /\ FileField("parse.py", KeyTimestamp).type = "str"
        /\ IsIsoZ(FileField("parse.py", KeyTimestamp).val)

\* C26: for every input, parse_dspy.py and parse.py agree on success versus
\* failure (exit status) and on whether decision.txt is written, and on
\* success the two decision.txt hold the same decision: the same tool_call
\* and the same ask_handler.
C26_SameContract ==
    (Completed("parse.py") /\ Completed("parse_dspy.py")) =>
        /\ proc["parse.py"].exit = proc["parse_dspy.py"].exit
        /\ FileWritten("parse.py") <=> FileWritten("parse_dspy.py")
        /\ proc["parse.py"].exit = 0 =>
              /\ FileField("parse.py", KeyToolCall)
                    = FileField("parse_dspy.py", KeyToolCall)
              /\ FileField("parse.py", KeyAskHandler)
                    = FileField("parse_dspy.py", KeyAskHandler)

====
